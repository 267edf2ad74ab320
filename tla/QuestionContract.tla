--------------------------- MODULE QuestionContract --------------------------
(***************************************************************************)
(* What one-shot verification promises to the person who is asked, with no *)
(* coroutines, receipts, tables of evidence or restarts: of a claim one    *)
(* question is open at a time and it reaches the person once at most; a    *)
(* no, or silence, only counts against a question that was seen, and one   *)
(* that is withdrawn never was; what was answered with no is not learnt    *)
(* again, and if asking is guarded, not asked about again either.          *)
(***************************************************************************)
CONSTANTS
  Question,
  Topic,       \* [claim, cand]: what a question may be about
  Guarded      \* is a candidate looked at again before its question is sent?

VARIABLES
  topic,       \* what each question is about
  seen,        \* the questions that reached the person
  outcome,     \* unused, open, yes, no, withdrawn
  learning     \* the candidates that take part in learning

vars == <<topic, seen, outcome, learning>>

Open == {q \in Question : outcome[q] = "open"}
Refused == {topic[q].cand : q \in {p \in Question : outcome[p] = "no"}}

Init ==
  /\ topic \in [Question -> Topic]
  /\ seen = {} /\ learning = {}
  /\ outcome = [q \in Question |-> "unused"]

DrawUp(q, t) ==
  /\ outcome[q] = "unused" /\ \A p \in Open : topic[p].claim # t.claim
  /\ topic' = [topic EXCEPT ![q] = t]
  /\ outcome' = [outcome EXCEPT ![q] = "open"]
  /\ UNCHANGED <<seen, learning>>

Reach(q) ==
  /\ q \in Open \ seen
  /\ Guarded => topic[q].cand \notin Refused
  /\ seen' = seen \cup {q}
  /\ UNCHANGED <<topic, outcome, learning>>

(* One transaction may settle several questions.                            *)
Settle(Q, verdict) ==
  /\ Q \subseteq Open
  /\ IF verdict = "withdrawn" THEN Q \cap seen = {} ELSE Q \subseteq seen
  /\ outcome' = [q \in Question |-> IF q \in Q THEN verdict ELSE outcome[q]]
  /\ learning' = IF verdict = "no" THEN learning \ {topic[q].cand : q \in Q}
                 ELSE learning
  /\ UNCHANGED <<topic, seen>>

(* Candidates come and go.                                                  *)
Learn ==
  /\ learning' \cap Refused = {}
  /\ UNCHANGED <<topic, seen, outcome>>

Next ==
  \/ \E q \in Question : Reach(q) \/ \E t \in Topic : DrawUp(q, t)
  \/ \E Q \in SUBSET Question, verdict \in {"yes", "no", "withdrawn"} :
       Settle(Q, verdict)
  \/ Learn

Spec == Init /\ [][Next]_vars
=============================================================================
