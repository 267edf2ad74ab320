-------------------------- MODULE CometaNotifyProofs --------------------------
(* Theorems of CometaNotify for any number of progress events and tries, for *)
(* short and long results, with every crash of the bot allowed.              *)
EXTENDS CometaNotify, TLAPS

-----------------------------------------------------------------------------
(* The inductive invariant.                                                  *)

PumpSteps == {"idle", "claimed", "file", "text", "sent", "unknown", "unavailable"}

Typed ==
  /\ TypeOK
  /\ pump.step # "idle" => Current \in Note
  /\ pump.step = "file" => Current = "final"

(* A text is out only for a row that is being sent or is done with, and not  *)
(* for one whose sender has not called yet.                                  *)
TextsOK ==
  /\ calls["progress"] = 0
  /\ \A n \in Note :
       calls[n] > 0 => row[n] \in {"sending", "sent", "delivery_unknown"}
  /\ pump.step \in {"claimed", "file", "text", "unavailable"} => calls[Current] = 0
  /\ gate = "claimed" => calls["ack"] = 0

(* Who says that the platform accepted a text has its answer.                *)
Answered ==
  /\ pump.step = "sent" => calls[Current] > 0
  /\ gate = "sent" => calls["ack"] > 0

(* The final row is written with the verdict.                                *)
FinalLast == task \in {"none", "open"} => row["final"] = "none"

(* Each file has a try of its own, and there is a try left for a file that   *)
(* may still be sent.                                                        *)
FilesOK ==
  /\ files <= tries["final"]
  /\ row["final"] = "none" => files = 0
  /\ row["final"] = "pending" => files < MaxTries
  /\ pump.step \in {"claimed", "file"} /\ Current = "final" => files < tries["final"]

IInv ==
  Typed /\ OneSender /\ TextOnce /\ TextsOK /\ Answered /\ ReportIsTrue /\ FinalLast
    /\ FilesOK

(* What one step may do to a row that is done with.                          *)
Kept ==
  \A n \in Note \ {"progress"} :
    row[n] \in {"sent", "delivery_unknown"} => row'[n] = row[n]

LEMMA InitInv == Init => IInv
  <1> SUFFICES ASSUME Init PROVE IInv
    OBVIOUS
  <1> USE NotifyAssumption
  <1>1. Typed
    BY DEF Init, Typed, TypeOK, Note, RowStates, NoHand, PumpSteps, Current
  <1>2. OneSender /\ TextOnce /\ TextsOK /\ Answered /\ ReportIsTrue /\ FinalLast
    BY DEF Init, OneSender, Holding, TextOnce, TextsOK, Answered, ReportIsTrue, FinalLast,
           NoHand, Note
  <1>3. FilesOK
    BY DEF Init, FilesOK, NoHand, Note
  <1> QED
    BY <1>1, <1>2, <1>3 DEF IInv

-----------------------------------------------------------------------------
(* The worker writes rows.                                                   *)

(* What the transactions of the worker do to the rows: nothing to one that   *)
(* is being sent, and only a progress row that is done with is armed again.  *)
Arms(r) ==
  /\ row' \in [Note -> RowStates]
  /\ \A n \in Note :
       row'[n] # row[n] =>
         /\ row'[n] \in {"pending", "superseded"}
         /\ row[n] \in {"none", "pending"} \/ (n = "progress" /\ row[n] # "sending")
  /\ \A n \in Note \ {r, "progress"} : row'[n] = row[n]

LEMMA UpsertArms ==
  ASSUME Typed, NEW n \in Note, row' = Upsert(n)
  PROVE  Arms(n)
  BY DEF Typed, TypeOK, Upsert, Arms, RowStates

LEMMA WriterInv ==
  ASSUME IInv, NEW n \in Note, Arms(n), Typed',
         UNCHANGED <<tries, pump, calls, files>>,
         gate' = gate \/ gate' = "waiting",
         task' = "finished" => 
           \/ task = "finished" /\ n # "final" /\ delivery' = delivery
           \/ task = "open" /\ row'["final"] = "pending" /\ delivery' = "pending",
         task' \in {"none", "open"} => task \in {"none", "open"} /\ n # "final"
  PROVE  IInv' /\ Kept
  <1> USE NotifyAssumption
  <1>1. Current' = Current /\ Current \in Note \cup {Current} /\ "ack" \in Note /\ "final" \in Note
        /\ "final" # "progress" /\ "ack" # "progress"
    BY DEF Current, Note
  <1>2. pump.step # "idle" => Current \in Note
    BY DEF IInv, Typed, Current
  <1>3. OneSender'
    BY <1>1, <1>2 DEF IInv, OneSender, Holding, Arms
  <1>4. TextOnce' /\ TextsOK' /\ Answered'
    BY <1>1 DEF IInv, Typed, TypeOK, TextOnce, TextsOK, Answered, Arms, Note
  <1>5. FinalLast'
    BY <1>1 DEF IInv, FinalLast, Arms
  <1>6. ReportIsTrue'
    BY <1>1 DEF IInv, ReportIsTrue, Arms
  <1>7. FilesOK'
    BY <1>1 DEF IInv, FilesOK, Arms, Typed, TypeOK
  <1>8. Kept
    BY DEF Kept, Arms
  <1> QED
    BY <1>3, <1>4, <1>5, <1>6, <1>7, <1>8 DEF IInv

LEMMA SubmitInv ==
  ASSUME IInv, Submit
  PROVE  IInv' /\ Kept
  <1>1. "ack" \in Note /\ "ack" # "final" /\ Typed
    BY DEF Note, IInv
  <1>2. Arms("ack")
    BY <1>1, UpsertArms DEF Submit
  <1>3. Typed'
    BY <1>1, <1>2 DEF Submit, Typed, TypeOK, Arms, Created, Current, platform
  <1> QED
    BY <1>1, <1>2, <1>3, WriterInv DEF Submit, platform

LEMMA ProgressInv ==
  ASSUME IInv, Progress
  PROVE  IInv' /\ Kept
  <1>1. "progress" \in Note /\ "progress" # "final" /\ Typed
    BY DEF Note, IInv
  <1>2. Arms("progress")
    BY <1>1, UpsertArms DEF Progress
  <1>3. Typed'
    BY <1>1, <1>2, NotifyAssumption
    DEF Progress, Typed, TypeOK, Arms, Created, Current, platform
  <1> QED
    BY <1>1, <1>2, <1>3, WriterInv DEF Progress, platform

LEMMA AskInputInv ==
  ASSUME IInv, AskInput
  PROVE  IInv' /\ Kept
  <1>1. "input" \in Note /\ "input" # "final" /\ Typed
    BY DEF Note, IInv
  <1>2. Arms("input")
    BY <1>1, UpsertArms DEF AskInput
  <1>3. Typed'
    BY <1>1, <1>2 DEF AskInput, Typed, TypeOK, Arms, Created, Current, platform
  <1> QED
    BY <1>1, <1>2, <1>3, WriterInv DEF AskInput, platform

LEMMA FinishInv ==
  ASSUME IInv, Finish
  PROVE  IInv' /\ Kept
  <1>1. "final" \in Note /\ "progress" \in Note /\ "final" # "progress" /\ Typed
        /\ row["final"] = "none" /\ task = "open" /\ task' \in {"finished", "withdrawn"}
        /\ (task' = "finished" => delivery' = "pending")
    BY DEF Note, IInv, FinalLast, Finish
  <1> DEFINE u == Upsert("final")
  <1>2. /\ row' = [u EXCEPT !["progress"] = IF @ = "pending" THEN "superseded" ELSE @]
        /\ u = [row EXCEPT !["final"] = "pending"]
    BY <1>1 DEF Finish, Upsert
  <1>3. row'["final"] = "pending" /\ Arms("final")
    BY <1>1, <1>2 DEF Typed, TypeOK, Arms, RowStates
  <1>4. Typed'
    BY <1>1, <1>3 DEF Finish, Typed, TypeOK, Arms, Created, Current, platform
  <1> QED
    BY <1>1, <1>3, <1>4, WriterInv DEF Finish, platform

LEMMA AbandonInv ==
  ASSUME IInv, Abandon
  PROVE  IInv' /\ Kept
  <1>1. "ack" \in Note /\ Typed
    BY DEF Note, IInv
  <1>2. Arms("ack")
    BY <1>1 DEF Abandon, tableVars, Arms, Typed, TypeOK
  <1>3. Typed'
    BY <1>1 DEF Abandon, tableVars, Typed, TypeOK, Current, platform
  <1> QED
    BY <1>1, <1>2, <1>3, WriterInv DEF Abandon, tableVars, platform

-----------------------------------------------------------------------------
(* The pump.                                                                 *)

PumpType == [batch : SUBSET Note, current : Note \cup {"none"}, step : PumpSteps]

(* A step of the pump that leaves the rows alone.                            *)
LEMMA GotoTyped ==
  ASSUME Typed, pump.step # "idle", NEW s \in PumpSteps, Goto(s)
  PROVE  pump' \in PumpType /\ pump'.step = s /\ Current' = Current /\ Current \in Note
  BY DEF Typed, TypeOK, Goto, Current, PumpType, PumpSteps

(* Nothing is in hand.                                                       *)
LEMMA EmptyInv ==
  ASSUME IInv, pump' \in PumpType, pump'.step = "idle",
         UNCHANGED <<task, row, tries, order, delivery, news, calls, files>>,
         up' \in BOOLEAN, asked' = asked,
         gate' = gate \/ gate' \in {"idle", "done"}
  PROVE  IInv' /\ Kept
  <1>1. Typed'
    BY DEF IInv, Typed, TypeOK, PumpSteps, PumpType, Current
  <1> QED
    BY <1>1
    DEF IInv, OneSender, Holding, TextOnce, TextsOK, Answered, ReportIsTrue, FinalLast,
        FilesOK, Kept

LEMMA PumpReadsInv ==
  ASSUME IInv, PumpReads \/ PumpSkips \/ PumpAborts \/ BotCrash
  PROVE  IInv' /\ Kept
  <1>1. /\ UNCHANGED <<task, row, tries, order, delivery, news, asked, calls, files>>
        /\ gate' = gate \/ gate' \in {"idle", "done"}
        /\ up' \in BOOLEAN /\ pump \in PumpType /\ up \in BOOLEAN
    BY DEF PumpReads, PumpSkips, PumpAborts, BotCrash, tableVars, platform, IInv, Typed,
           TypeOK, PumpType, PumpSteps
  <1>2. pump' \in PumpType /\ pump'.step = "idle"
    <2>1. NoHand \in PumpType /\ NoHand.step = "idle"
      BY DEF NoHand, PumpType, PumpSteps
    <2>2. CASE PumpReads
      BY <2>2 DEF PumpReads, NoHand, PumpType, PumpSteps
    <2>3. CASE PumpSkips
      BY <1>1, <2>3 DEF PumpSkips, At, PumpType
    <2>4. CASE PumpAborts \/ BotCrash
      BY <2>1, <2>4 DEF PumpAborts, BotCrash
    <2> QED
      BY <2>2, <2>3, <2>4
  <1> QED
    BY <1>1, <1>2, EmptyInv

LEMMA PumpClaimsInv ==
  ASSUME IInv, PumpClaims
  PROVE  IInv' /\ Kept
  <1> USE NotifyAssumption
  <1>1. PICK n \in Note :
          /\ row[n] = "pending" /\ row' = [row EXCEPT ![n] = "sending"]
          /\ tries' = [tries EXCEPT ![n] = IF @ < MaxTries THEN @ + 1 ELSE @]
          /\ pump' = [batch |-> pump.batch \ {n}, current |-> n, step |-> "claimed"]
    BY DEF PumpClaims, Claim, Claimable
  <1>2. /\ UNCHANGED <<task, order, delivery, news, up, gate, asked, calls, files>>
        /\ pump.step = "idle" /\ Typed
    BY DEF PumpClaims, At, platform, IInv
  <1>3. pump' \in PumpType /\ pump'.step = "claimed" /\ Current' = n
    BY <1>1, <1>2 DEF Typed, TypeOK, PumpType, PumpSteps, Current
  <1>4. Typed'
    BY <1>1, <1>2, <1>3 DEF Typed, TypeOK, RowStates, PumpSteps, PumpType
  <1>5. OneSender'
    BY <1>1, <1>2, <1>3 DEF IInv, OneSender, Holding, Typed, TypeOK, Note
  <1>6. TextOnce' /\ TextsOK' /\ Answered'
    BY <1>1, <1>2, <1>3 DEF IInv, Typed, TypeOK, TextOnce, TextsOK, Answered, Note
  <1>7. ReportIsTrue' /\ FinalLast'
    BY <1>1, <1>2, <1>3 DEF IInv, Typed, TypeOK, ReportIsTrue, FinalLast, Note
  <1>8. FilesOK'
    BY <1>1, <1>2, <1>3 DEF IInv, Typed, TypeOK, FilesOK, Note
  <1>9. Kept
    BY <1>1, <1>2 DEF Kept, Typed, TypeOK
  <1> QED
    BY <1>4, <1>5, <1>6, <1>7, <1>8, <1>9 DEF IInv

(* The pump lets go of its row, which becomes s.                             *)
LEMMA MarkedInv ==
  ASSUME IInv, NEW s \in {"pending", "sent", "delivery_unknown"},
         pump.step \notin {"idle"}, Mark(Current, s), Drop,
         UNCHANGED <<task, news, up, gate, asked, calls, files>>,
         s = "pending" => calls[Current] = 0
                          /\ (Current = "final" => files < MaxTries),
         s = "sent" => calls[Current] > 0
  PROVE  IInv' /\ Kept
  <1> USE NotifyAssumption
  <1>1. Typed /\ Current \in Note /\ row[Current] = "sending"
    BY DEF IInv, Typed, OneSender
  <1>2. /\ row' = [row EXCEPT ![Current] = s]
        /\ delivery' = IF Current = "final" /\ task = "finished"
                          /\ s \in {"sent", "delivery_unknown"} THEN s ELSE delivery
        /\ UNCHANGED <<tries, order>>
    BY <1>1 DEF Mark
  <1>3. pump' \in PumpType /\ pump'.step = "idle"
    BY <1>1 DEF Drop, Typed, TypeOK, PumpType, PumpSteps
  <1>4. Typed'
    BY <1>1, <1>2, <1>3 DEF Typed, TypeOK, RowStates, PumpSteps, PumpType
  <1>5. OneSender'
    BY <1>1, <1>2, <1>3 DEF IInv, OneSender, Holding, Typed, TypeOK, Note
  <1>6. TextOnce' /\ TextsOK' /\ Answered'
    BY <1>1, <1>2, <1>3 DEF IInv, Typed, TypeOK, TextOnce, TextsOK, Answered, Note
  <1>7. ReportIsTrue' /\ FinalLast'
    BY <1>1, <1>2, <1>3 DEF IInv, Typed, TypeOK, ReportIsTrue, FinalLast, Note
  <1>8. FilesOK'
    BY <1>1, <1>2, <1>3 DEF IInv, Typed, TypeOK, FilesOK, Note
  <1>9. Kept
    BY <1>1, <1>2 DEF Kept, Typed, TypeOK
  <1> QED
    BY <1>4, <1>5, <1>6, <1>7, <1>8, <1>9 DEF IInv

LEMMA RenderFailsInv ==
  ASSUME IInv, RenderFails
  PROVE  IInv' /\ Kept
  <1>1. /\ pump.step = "claimed" /\ Mark(Current, "pending") /\ Drop
        /\ UNCHANGED <<task, news, up, gate, asked, calls, files>>
    BY DEF RenderFails, At, platform
  <1>2. calls[Current] = 0
    BY <1>1 DEF IInv, TextsOK
  <1>3. Current = "final" => files < MaxTries
    BY <1>1, NotifyAssumption DEF IInv, FilesOK, Typed, TypeOK, Note
  <1> QED
    BY <1>1, <1>2, <1>3, MarkedInv

LEMMA PumpMarksInv ==
  ASSUME IInv, PumpMarks
  PROVE  IInv' /\ Kept
  <1>1. /\ pump.step \in {"sent", "unknown", "unavailable"}
        /\ Mark(Current, Record(Current)) /\ Drop
        /\ UNCHANGED <<task, news, up, gate, asked, calls, files>>
    BY DEF PumpMarks, At, platform
  <1>2. Current \in Note /\ tries \in [Note -> 0..MaxTries] /\ files \in Nat /\ MaxTries \in Nat
    BY <1>1, NotifyAssumption DEF IInv, Typed, TypeOK
  <1>3. CASE pump.step = "sent"
    BY <1>1, <1>3, MarkedInv DEF Record, IInv, Answered
  <1>4. CASE pump.step = "unknown"
    BY <1>1, <1>4, MarkedInv DEF Record
  <1>5. CASE pump.step = "unavailable" /\ tries[Current] >= MaxTries
    BY <1>1, <1>5, MarkedInv DEF Record
  <1>6. CASE pump.step = "unavailable" /\ ~(tries[Current] >= MaxTries)
    <2>1. Record(Current) = "pending" /\ calls[Current] = 0
      BY <1>6 DEF Record, IInv, TextsOK
    <2>2. Current = "final" => files < MaxTries
      BY <1>2, <1>6 DEF IInv, FilesOK
    <2> QED
      BY <1>1, <2>1, <2>2, MarkedInv
  <1> QED
    BY <1>1, <1>3, <1>4, <1>5, <1>6

(* A step of the pump that sends nothing.                                    *)
LEMMA RenderedInv ==
  ASSUME IInv, Rendered \/ TargetRefused
  PROVE  IInv' /\ Kept
  <1>1. /\ UNCHANGED <<task, row, tries, order, delivery, news, up, gate, asked, calls,
                       files>>
        /\ pump.step \in {"claimed", "text"} /\ Typed
    BY DEF Rendered, TargetRefused, At, tableVars, platform, IInv
  <1>2. PICK s \in {"file", "text", "unknown"} :
          /\ Goto(s)
          /\ s = "file" => Current = "final" /\ pump.step = "claimed"
    BY DEF Rendered, TargetRefused, At
  <1>3. pump' \in PumpType /\ pump'.step = s /\ Current' = Current /\ Current \in Note
    BY <1>1, <1>2, GotoTyped DEF PumpSteps
  <1>4. Typed'
    BY <1>1, <1>2, <1>3 DEF Typed, TypeOK, PumpType, PumpSteps
  <1> QED
    BY <1>1, <1>2, <1>3, <1>4
    DEF IInv, OneSender, Holding, TextOnce, TextsOK, Answered, ReportIsTrue, FinalLast,
        FilesOK, Kept

LEMMA SendFileInv ==
  ASSUME IInv, SendFile
  PROVE  IInv' /\ Kept
  <1>1. /\ UNCHANGED <<task, row, tries, order, delivery, news, up, gate, calls>>
        /\ pump.step = "file" /\ Typed /\ Current = "final"
    BY DEF SendFile, At, tableVars, IInv, Typed
  <1>2. PICK s \in {"unavailable", "text", "unknown"} :
          /\ Goto(s)
          /\ files' \in {files, files + 1}
          /\ asked' \in {asked, asked \cup {Current}}
    <2>1. files + 0 = files
      BY DEF IInv, Typed, TypeOK
    <2> QED
      BY <2>1 DEF SendFile
  <1>3. pump' \in PumpType /\ pump'.step = s /\ Current' = Current /\ Current \in Note
    BY <1>1, <1>2, GotoTyped DEF PumpSteps
  <1>4. Typed'
    BY <1>1, <1>2, <1>3 DEF Typed, TypeOK, PumpType, PumpSteps
  <1>5. FilesOK'
    <2>1. files < tries["final"] /\ files \in Nat /\ tries["final"] \in Nat
          /\ row["final"] = "sending"
      BY <1>1, NotifyAssumption DEF IInv, FilesOK, OneSender, Typed, TypeOK, Note
    <2> QED
      BY <1>1, <1>2, <1>3, <2>1 DEF FilesOK
  <1> QED
    BY <1>1, <1>2, <1>3, <1>4, <1>5
    DEF IInv, OneSender, Holding, TextOnce, TextsOK, Answered, ReportIsTrue, FinalLast,
        Kept

(* The platform is called for the text of n.                                 *)
LEMMA OutcomeTexts ==
  ASSUME IInv, NEW n \in Note, NEW s, TextOutcome(n, s), n # "progress",
         row[n] = "sending", calls[n] = 0, row' = row
  PROVE  /\ asked' = asked \cup {n} /\ calls' \in [Note -> Nat]
         /\ calls'[n] \in {0, 1} /\ (s = "sent" => calls'[n] = 1)
         /\ s \in {"sent", "unknown"}
         /\ \A m \in Note \ {n} : calls'[m] = calls[m]
         /\ TextOnce' /\ calls'["progress"] = 0
         /\ \A m \in Note : calls'[m] > 0 => row'[m] \in {"sending", "sent", "delivery_unknown"}
  <1>1. PICK k \in {0, 1} : /\ calls' = [calls EXCEPT ![n] = @ + k]
                            /\ s = "sent" => k = 1
                            /\ s \in {"sent", "unknown"} /\ asked' = asked \cup {n}
    BY DEF TextOutcome
  <1>2. calls \in [Note -> Nat] /\ "progress" \in Note /\ calls["progress"] = 0
    BY DEF IInv, Typed, TypeOK, TextsOK, Note
  <1>3. calls' \in [Note -> Nat] /\ calls'[n] = k /\ \A m \in Note \ {n} : calls'[m] = calls[m]
    BY <1>1, <1>2
  <1>4. TextOnce'
    BY <1>3 DEF IInv, TextOnce
  <1> QED
    BY <1>1, <1>2, <1>3, <1>4 DEF IInv, TextsOK

LEMMA SendTextInv ==
  ASSUME IInv, SendText
  PROVE  IInv' /\ Kept
  <1>1. /\ UNCHANGED <<task, row, tries, order, delivery, news, up, gate, files>>
        /\ pump.step = "text" /\ Typed /\ Current # "progress"
    BY DEF SendText, At, tableVars, IInv, HasTarget
  <1>2. /\ Current \in Note /\ row[Current] = "sending" /\ calls[Current] = 0
        /\ Holding => Current # "ack"
    BY <1>1 DEF IInv, Typed, OneSender, TextsOK
  <1>3. CASE Goto("unavailable") /\ UNCHANGED <<asked, calls>>
    <2>1. pump' \in PumpType /\ pump'.step = "unavailable" /\ Current' = Current
      BY <1>1, <1>3, GotoTyped DEF PumpSteps
    <2>2. Typed'
      BY <1>1, <1>2, <1>3, <2>1 DEF Typed, TypeOK, PumpType, PumpSteps
    <2> QED
      BY <1>1, <1>2, <1>3, <2>1, <2>2
      DEF IInv, OneSender, Holding, TextOnce, TextsOK, Answered, ReportIsTrue, FinalLast,
          FilesOK, Kept
  <1>4. ASSUME NEW s, TextOutcome(Current, s), Goto(s)
        PROVE  IInv' /\ Kept
    <2>1. /\ asked' = asked \cup {Current} /\ calls' \in [Note -> Nat]
          /\ calls'[Current] \in {0, 1} /\ (s = "sent" => calls'[Current] = 1)
          /\ s \in {"sent", "unknown"}
          /\ \A m \in Note \ {Current} : calls'[m] = calls[m]
          /\ TextOnce' /\ calls'["progress"] = 0
          /\ \A m \in Note : calls'[m] > 0 => row'[m] \in {"sending", "sent", "delivery_unknown"}
      BY <1>1, <1>2, <1>4, OutcomeTexts
    <2>2. pump' \in PumpType /\ pump'.step = s /\ Current' = Current
      BY <1>1, <1>4, <2>1, GotoTyped DEF PumpSteps
    <2>3. Typed'
      BY <1>1, <1>2, <2>1, <2>2 DEF Typed, TypeOK, PumpType, PumpSteps
    <2>4. OneSender' /\ FinalLast' /\ FilesOK' /\ Kept
      BY <1>1, <1>2, <2>1, <2>2 DEF IInv, OneSender, Holding, FinalLast, FilesOK, Kept
    <2>5. TextsOK' /\ Answered'
      BY <1>1, <1>2, <2>1, <2>2 DEF IInv, TextsOK, Answered, Holding, Note
    <2>6. ReportIsTrue'
      BY <1>1, <1>2, <2>1 DEF IInv, ReportIsTrue
    <2> QED
      BY <2>1, <2>3, <2>4, <2>5, <2>6 DEF IInv
  <1> QED
    BY <1>3, <1>4 DEF SendText

-----------------------------------------------------------------------------
(* The entry point.                                                          *)

LEMMA GateClaimsInv ==
  ASSUME IInv, GateClaims
  PROVE  IInv' /\ Kept
  <1> USE NotifyAssumption
  <1>1. /\ row["ack"] = "pending" /\ row' = [row EXCEPT !["ack"] = "sending"]
        /\ tries' = [tries EXCEPT !["ack"] = IF @ < MaxTries THEN @ + 1 ELSE @]
        /\ gate' = "claimed"
        /\ UNCHANGED <<task, order, delivery, news, up, pump, asked, calls, files>>
        /\ Typed /\ Current' = Current
    BY DEF GateClaims, Claim, Claimable, platform, IInv, Current
  <1>2. Typed'
    BY <1>1 DEF Typed, TypeOK, RowStates, Note
  <1>3. OneSender'
    BY <1>1 DEF IInv, OneSender, Holding, Typed, TypeOK, Note
  <1>4. TextOnce' /\ TextsOK' /\ Answered'
    BY <1>1 DEF IInv, Typed, TypeOK, TextOnce, TextsOK, Answered, Note
  <1>5. ReportIsTrue' /\ FinalLast' /\ FilesOK' /\ Kept
    BY <1>1 DEF IInv, Typed, TypeOK, ReportIsTrue, FinalLast, FilesOK, Kept, Note
  <1> QED
    BY <1>2, <1>3, <1>4, <1>5 DEF IInv

LEMMA GateEndsInv ==
  ASSUME IInv, GateSkips \/ GateAborts \/ BotRestart \/ UNCHANGED vars
  PROVE  IInv' /\ Kept
  <1>1. /\ UNCHANGED <<task, row, tries, order, delivery, news, pump, asked, calls, files>>
        /\ gate' \in {gate, "done"} /\ up' \in BOOLEAN /\ Typed /\ Current' = Current
    BY DEF GateSkips, GateAborts, BotRestart, vars, tableVars, platform, IInv, Current,
           Typed, TypeOK
  <1>2. Typed'
    BY <1>1 DEF Typed, TypeOK
  <1> QED
    BY <1>1, <1>2
    DEF IInv, OneSender, Holding, TextOnce, TextsOK, Answered, ReportIsTrue, FinalLast,
        FilesOK, Kept

LEMMA GateSendsInv ==
  ASSUME IInv, GateSends
  PROVE  IInv' /\ Kept
  <1>1. /\ UNCHANGED <<task, row, tries, order, delivery, news, up, pump, files>>
        /\ gate = "claimed" /\ Typed /\ Current' = Current /\ "ack" \in Note
    BY DEF GateSends, tableVars, IInv, Current, Note
  <1>2. /\ row["ack"] = "sending" /\ calls["ack"] = 0
        /\ pump.step = "idle" \/ Current # "ack"
    BY <1>1 DEF IInv, OneSender, TextsOK, Holding
  <1>3. PICK s \in {"sent", "unknown"} : TextOutcome("ack", s) /\ gate' = s
    BY DEF GateSends
  <1>4. /\ asked' = asked \cup {"ack"} /\ calls' \in [Note -> Nat]
        /\ calls'["ack"] \in {0, 1} /\ (s = "sent" => calls'["ack"] = 1)
        /\ s \in {"sent", "unknown"}
        /\ \A m \in Note \ {"ack"} : calls'[m] = calls[m]
        /\ TextOnce' /\ calls'["progress"] = 0
        /\ \A m \in Note : calls'[m] > 0 => row'[m] \in {"sending", "sent", "delivery_unknown"}
    BY <1>1, <1>2, <1>3, OutcomeTexts
  <1>5. Typed'
    <2>1. asked' \subseteq Note /\ gate' \in {"sent", "unknown"}
      BY <1>1, <1>3, <1>4 DEF Typed, TypeOK
    <2> QED
      BY <1>1, <1>4, <2>1 DEF Typed, TypeOK
  <1>6. OneSender' /\ FinalLast' /\ FilesOK' /\ Kept
    BY <1>1, <1>2, <1>3 DEF IInv, OneSender, Holding, FinalLast, FilesOK, Kept
  <1>7. TextsOK' /\ Answered'
    BY <1>1, <1>2, <1>3, <1>4 DEF IInv, TextsOK, Answered, Typed
  <1>8. ReportIsTrue'
    BY <1>1, <1>2, <1>4 DEF IInv, ReportIsTrue
  <1> QED
    BY <1>4, <1>5, <1>6, <1>7, <1>8 DEF IInv

LEMMA GateMarksInv ==
  ASSUME IInv, GateMarks
  PROVE  IInv' /\ Kept
  <1>1. /\ gate \in {"sent", "unknown"} /\ gate' = "done" /\ Typed /\ Current' = Current
        /\ UNCHANGED <<task, tries, order, delivery, news, up, pump, asked, calls, files>>
        /\ row["ack"] = "sending" /\ (pump.step = "idle" \/ Current # "ack")
        /\ "ack" \in Note /\ "ack" # "final"
    BY DEF GateMarks, Mark, platform, IInv, Current, OneSender, Holding, Note
  <1>2. PICK s \in {"sent", "delivery_unknown"} :
          row' = [row EXCEPT !["ack"] = s] /\ (s = "sent" => gate = "sent")
    BY <1>1 DEF GateMarks, Mark
  <1>3. Typed'
    BY <1>1, <1>2 DEF Typed, TypeOK, RowStates
  <1>4. OneSender'
    BY <1>1, <1>2 DEF IInv, OneSender, Holding, Typed, TypeOK
  <1>5. TextOnce' /\ TextsOK' /\ Answered'
    BY <1>1, <1>2 DEF IInv, Typed, TypeOK, TextOnce, TextsOK, Answered
  <1>6. ReportIsTrue' /\ FinalLast' /\ FilesOK' /\ Kept
    BY <1>1, <1>2 DEF IInv, Typed, TypeOK, ReportIsTrue, FinalLast, FilesOK, Kept,
       Answered, Note
  <1> QED
    BY <1>3, <1>4, <1>5, <1>6 DEF IInv

-----------------------------------------------------------------------------
(* The theorems.                                                             *)

LEMMA StepInv ==
  ASSUME IInv, [Next]_vars
  PROVE  IInv' /\ Kept
  <1>1. CASE Writer
    BY <1>1, SubmitInv, ProgressInv, AskInputInv, FinishInv, AbandonInv DEF Writer
  <1>2. CASE PumpReads \/ PumpSkips \/ PumpAborts \/ BotCrash
    BY <1>2, PumpReadsInv
  <1>3. CASE PumpClaims \/ RenderFails \/ PumpMarks
    BY <1>3, PumpClaimsInv, RenderFailsInv, PumpMarksInv
  <1>4. CASE Rendered \/ TargetRefused \/ SendFile \/ SendText
    BY <1>4, RenderedInv, SendFileInv, SendTextInv
  <1>5. CASE GateClaims \/ GateSends \/ GateMarks
    BY <1>5, GateClaimsInv, GateSendsInv, GateMarksInv
  <1>6. CASE GateSkips \/ GateAborts \/ BotRestart \/ UNCHANGED vars
    BY <1>6, GateEndsInv
  <1> QED
    BY <1>1, <1>2, <1>3, <1>4, <1>5, <1>6 DEF Next, Pump, Gate

(* The inductive invariant holds in every state.                             *)
THEOREM Inductive == Spec => []IInv
  <1>1. Init => IInv
    BY InitInv
  <1>2. IInv /\ [Next]_vars => IInv'
    BY StepInv
  <1> QED
    BY <1>1, <1>2, PTL DEF Spec

(* Rows, counters and the hands of the pump stay in their domains.           *)
THEOREM TypeCorrect == Spec => []TypeOK
  <1>1. IInv => TypeOK
    BY DEF IInv, Typed
  <1> QED
    BY <1>1, Inductive, PTL

(* Only who claimed a row calls the platform for it.                         *)
THEOREM SenderIsAlone == Spec => []OneSender
  <1>1. IInv => OneSender
    BY DEF IInv
  <1> QED
    BY <1>1, Inductive, PTL

(* No text is delivered twice.                                               *)
THEOREM TextAtMostOnce == Spec => []TextOnce
  <1>1. IInv => TextOnce
    BY DEF IInv
  <1> QED
    BY <1>1, Inductive, PTL

(* A row and the delivery state of the task do not claim what did not happen. *)
THEOREM ReportsAreTrue == Spec => []ReportIsTrue
  <1>1. IInv => ReportIsTrue
    BY DEF IInv
  <1> QED
    BY <1>1, Inductive, PTL

(* The copies of a long result are bounded by the tries.                     *)
THEOREM FilesAreBounded == Spec => []FilesBounded
  <1>1. IInv => FilesBounded
    BY NotifyAssumption DEF IInv, FilesOK, FilesBounded, Typed, TypeOK, Note
  <1> QED
    BY <1>1, Inductive, PTL

(* A message that is delivered or in doubt is never armed again.             *)
THEOREM DoneStaysDone == Spec => NeverRearmed
  <1>1. IInv /\ [Next]_vars => [Kept]_vars
    BY StepInv
  <1>2. Spec => [][Kept]_vars
    BY <1>1, Inductive, PTL DEF Spec
  <1> QED
    BY <1>2, PTL DEF NeverRearmed, Kept

-----------------------------------------------------------------------------
(* The refinement: a call that succeeds accepts the message, any other step  *)
(* reports or changes nothing.                                               *)

OnlyCalls(n) == calls' = [calls EXCEPT ![n] = @ + 1] /\ row' = row

LEMMA CallsEffect ==
  ASSUME IInv, [Next]_vars
  PROVE  calls' = calls \/ \E n \in Once : row[n] = "sending" /\ OnlyCalls(n)
  <1>1. ASSUME NEW n \in Once, NEW s, TextOutcome(n, s), row' = row, row[n] = "sending"
        PROVE  calls' = calls \/ \E m \in Once : row[m] = "sending" /\ OnlyCalls(m)
    <2>1. PICK k \in 0..1 : calls' = [calls EXCEPT ![n] = @ + k]
      BY <1>1 DEF TextOutcome
    <2>2. CASE k = 0
      BY <2>1, <2>2, <1>1 DEF IInv, Typed, TypeOK, Once
    <2>3. CASE k = 1
      <3>1. OnlyCalls(n)
        BY <1>1, <2>1, <2>3 DEF OnlyCalls
      <3> QED
        BY <1>1, <3>1
    <2> QED
      BY <2>2, <2>3
  <1>2. CASE SendText
    <2>1. Current \in Once /\ row[Current] = "sending" /\ row' = row
      BY <1>2 DEF SendText, At, HasTarget, Once, IInv, Typed, OneSender, tableVars
    <2> QED
      BY <1>1, <1>2, <2>1 DEF SendText
  <1>3. CASE GateSends
    <2>1. "ack" \in Once /\ row["ack"] = "sending" /\ row' = row
      BY <1>3 DEF GateSends, Once, Note, IInv, OneSender, Holding, tableVars
    <2> QED
      BY <1>1, <1>3, <2>1 DEF GateSends
  <1>4. CASE Writer \/ PumpReads \/ PumpClaims \/ PumpSkips \/ RenderFails
             \/ Rendered \/ TargetRefused \/ PumpMarks \/ PumpAborts
    BY <1>4 DEF Writer, Submit, Progress, AskInput, Finish, Abandon, PumpReads,
       PumpClaims, PumpSkips, RenderFails, Rendered, TargetRefused, PumpMarks,
       PumpAborts, platform
  <1>5. CASE SendFile \/ GateClaims \/ GateSkips \/ GateMarks \/ GateAborts
             \/ BotCrash \/ BotRestart \/ UNCHANGED vars
    BY <1>5 DEF SendFile, GateClaims, GateSkips, GateMarks, GateAborts, BotCrash,
       BotRestart, vars, platform
  <1> QED
    BY <1>2, <1>3, <1>4, <1>5 DEF Next, Pump, Gate

LEMMA ReportStep ==
  ASSUME IInv, IInv', Kept, calls' = calls
  PROVE  Contract!Report
  <1>1. [n \in Once |-> Said(row'[n])] \in [Once -> Contract!Verdict]
    BY DEF Contract!Verdict, Said
  <1>2. ASSUME NEW n \in Once
        PROVE  \/ Said(row'[n]) = Said(row[n])
               \/ /\ Said(row[n]) = "open"
                  /\ Said(row'[n]) = "sent" => calls[n] = 1
                  /\ Said(row'[n]) = "not_sent" => calls[n] = 0
    <2>1. n \in Note /\ calls[n] \in Nat /\ calls[n] <= 1
      BY DEF IInv, Typed, TypeOK, TextOnce, Once
    <2>2. row'[n] = "sent" => calls[n] > 0
      BY <2>1 DEF IInv, ReportIsTrue
    <2>3. CASE row[n] \in {"sent", "delivery_unknown"}
      BY <2>3 DEF Kept, Once
    <2>4. CASE row[n] \notin {"sent", "delivery_unknown"}
      BY <2>1, <2>2, <2>4 DEF Said
    <2> QED
      BY <2>3, <2>4
  <1> QED
    BY <1>1, <1>2 DEF Contract!Report

LEMMA AcceptStep ==
  ASSUME IInv, IInv', NEW n \in Once, row[n] = "sending", OnlyCalls(n)
  PROVE  Contract!Accept(n)
  <1>1. /\ n \in Note /\ calls \in [Note -> Nat]
        /\ calls'[n] <= 1 /\ calls'[n] = calls[n] + 1
    BY DEF IInv, Typed, TypeOK, TextOnce, OnlyCalls, Once
  <1>2. calls[n] = 0
    BY <1>1
  <1>3. [m \in Once |-> calls'[m]] = [[m \in Once |-> calls[m]] EXCEPT ![n] = 1]
    <2>1. calls'[n] = 1 /\ \A m \in Once : m # n => calls'[m] = calls[m]
      BY <1>1, <1>2 DEF OnlyCalls, Once
    <2> QED
      BY <2>1
  <1>4. Said(row[n]) = "open"
    BY DEF Said
  <1>5. [m \in Once |-> Said(row'[m])] = [m \in Once |-> Said(row[m])]
    BY DEF OnlyCalls
  <1> QED
    BY <1>2, <1>3, <1>4, <1>5 DEF Contract!Accept

(* Pump and entry point, with their claims, retries and crashes, keep the    *)
(* contract of ReportContract for every row but the progress row.            *)
THEOREM ReportIsKept == Spec => ImplementsReport
  <1>1. Init => Contract!Init
    BY DEF Init, Contract!Init, Said, Once
  <1>2. IInv /\ IInv' /\ [Next]_vars => [Contract!Next]_(Contract!vars)
    <2> SUFFICES ASSUME IInv, IInv', [Next]_vars PROVE Contract!Next
      OBVIOUS
    <2>1. Kept
      BY StepInv
    <2> QED
      BY <2>1, CallsEffect, ReportStep, AcceptStep DEF Contract!Next
  <1> QED
    BY <1>1, <1>2, Inductive, PTL DEF Spec, ImplementsReport, Contract!Spec
=============================================================================
