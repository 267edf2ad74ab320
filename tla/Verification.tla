---------------------------- MODULE Verification ----------------------------
(* One-shot verification of memory candidates: Mneme keeps the attempts and  *)
(* the rejection tombstones (src/mneme/verification.py), the consolidator    *)
(* writes candidates from source rows and promotes them                      *)
(* (src/mneme/consolidator.py, src/mneme/memory_manager.py), and Aoede asks  *)
(* the person about a candidate (src/aoede/verification/service.py).         *)
(*                                                                           *)
(* One person in one group of one shared space.  Every transaction runs on   *)
(* the event loop without an await inside, so it is one step; a coroutine    *)
(* that asks is interleaved with everything else between its awaits.  The    *)
(* process may stop at any step and starts again with the tables it left.    *)
(* A claim stands for (owner, audience, fact key).                           *)
EXTENDS Integers, FiniteSets

CONSTANTS
  None,          \* no candidate, no row
  Claim,         \* claims about the person
  Row,           \* messages of the person that may support a claim
  SourcesOf,     \* sources that a batch may yield for a claim
  Asker,         \* concurrent proactive_at_user coroutines
  Enforce,       \* PROACTIVE_VERIFICATION_CONTRACT_MODE is "enforce"
  MaxCands,      \* bound: rows of memory_candidates
  MaxAttempts,   \* bound: rows of memory_verification_attempts
  MaxWrites,     \* bound: batches that the consolidator writes
  MaxCrashes     \* bound: stops of the process

ASSUME BoundsAssumption ==
  /\ {MaxCands, MaxAttempts, MaxWrites, MaxCrashes} \subseteq Nat
  /\ Enforce \in BOOLEAN
  /\ SourcesOf \in [Claim -> SUBSET (SUBSET Row)]

VARIABLES
  candidates,    \* memory_candidates: None, or claim, sources and status
  lineage,       \* candidate_id of the evidence of a claim in a row, or None
  attempts,      \* memory_verification_attempts, by attempt
  tombstones,    \* memory_rejection_tombstones
  lastAsked,     \* proactive_state.last_asked_candidate_id
  asking,        \* locals of each coroutine
  recovered,     \* _startup_recovery_done of this process
  sent,          \* attempts whose question reached the group (history)
  writes, crashes

vars == <<candidates, lineage, attempts, tombstones, lastAsked, asking,
          recovered, sent, writes, crashes>>
memory == <<candidates, lineage, writes>>

-----------------------------------------------------------------------------
(* Tables                                                                    *)

Cand == 1 .. MaxCands
Attempts == 1 .. MaxAttempts
Live == {"NEW", "OBSERVING"}
Statuses == Live \cup {"CONFIRMED", "REJECTED"}
CandRow == [claim : Claim, rows : SUBSET Row, status : Statuses]
ASSUME NoneAssumption == None \notin Claim \cup Nat \cup CandRow
Negative == {"DENIED", "UNCLEAR", "UNANSWERED"}
Final == Negative \cup {"CONFIRMED", "CANCELLED"}
(* SENDING is in the schema but no code writes it.                           *)
States == Final \cup {"none", "RESERVED", "PENDING_VERIFICATION",
                      "DELIVERY_UNKNOWN"}
ActiveSlip == {"RESERVED", "PENDING_VERIFICATION"}
Active == {"RESERVED", "PENDING_VERIFICATION", "DELIVERY_UNKNOWN"}

NoAttempt == [cand |-> None, claim |-> None, rows |-> {}, state |-> "none",
              due |-> FALSE]
Idle == [pc |-> "idle", cand |-> None, rows |-> {}, contract |-> FALSE]

AttemptRow == [cand : Cand \cup {None}, claim : Claim \cup {None},
               rows : SUBSET Row, state : States, due : BOOLEAN]
Receipts == {"acknowledged", "failed", "unresolved"}
AskRow == [pc : {"idle", "picked", "reserved", "sending", "delivered"} \cup Receipts,
           cand : Cand \cup {None}, rows : SUBSET Row, contract : BOOLEAN]

Exists(c) == candidates[c] # None
Is(c, status) == Exists(c) /\ candidates[c].status = status
In(state) == {i \in Attempts : attempts[i].state = state}

(* The accepted evidence linked to a candidate: e.candidate_id = candidate.  *)
EvidenceOf(c) == {r \in Row : lineage[candidates[c].claim][r] = c}

Init ==
  /\ candidates = [c \in Cand |-> None]
  /\ lineage = [k \in Claim |-> [r \in Row |-> None]]
  /\ attempts = [i \in Attempts |-> NoAttempt]
  /\ tombstones = {}
  /\ lastAsked = None
  /\ asking = [a \in Asker |-> Idle]
  /\ recovered = FALSE
  /\ sent = {}
  /\ writes = 0
  /\ crashes = 0

-----------------------------------------------------------------------------
(* Tombstones                                                                *)

(* An attempt is about the person; a candidate of a space has no subject.    *)
Person == "qq:uid"
NoSubject == ""

(* Of the tombstones of a claim and a subject only the latest one counts.    *)
LatestTombstone(k, subject) ==
  LET found == {t \in tombstones : t.claim = k /\ t.subject = subject}
  IN  {t \in found : \A u \in found : u.attempt <= t.attempt}

(* resurrection_blocked.  The rows of a tombstone are integers and the rows  *)
(* compared with them are strings: rows never match, only digests do.        *)
Blocked(k, subject, rows, digests) ==
  \E t \in LatestTombstone(k, subject) :
    \/ rows = {} /\ digests = {}
    \/ digests # {} /\ digests \subseteq t.digests

(* The settlement of attempts `is` with a verdict: state, and for a negative *)
(* verdict a tombstone for each and the rejection of its live candidate.     *)
Rejects(is) ==
  /\ tombstones' = tombstones \cup
       {[claim |-> attempts[i].claim, subject |-> Person,
         digests |-> attempts[i].rows, attempt |-> i] : i \in is}
  /\ candidates' = [c \in Cand |->
       IF (\E i \in is : attempts[i].cand = c) /\ Exists(c)
          /\ candidates[c].status \in Live
       THEN [candidates[c] EXCEPT !.status = "REJECTED"]
       ELSE candidates[c]]

Verdict(is, state) ==
  attempts' = [i \in Attempts |->
    IF i \in is THEN [attempts[i] EXCEPT !.state = state] ELSE attempts[i]]

-----------------------------------------------------------------------------
(* Consolidation: a batch yields claim k with sources R                      *)

FreshRows(k, R) == {r \in R : lineage[k][r] = None}

(* The live candidates of the claim, one of which the batch strengthens.     *)
ExistingSlip(k) == {c \in Cand : Exists(c) /\ candidates[c].claim = k}
Existing(k) == {c \in Cand : Exists(c) /\ candidates[c].claim = k
                             /\ candidates[c].status \in Live}

LinkedTo(c, k, R) ==
  [lineage EXCEPT ![k] = [r \in Row |->
    IF r \in FreshRows(k, R) THEN c ELSE lineage[k][r]]]

(* The tables after _write_memory_candidates: nothing new when the claim is  *)
(* blocked; else a live candidate of similar content gets the new sources    *)
(* and is NEW again (or nothing happens, when it knows every source); else,  *)
(* when no live one is similar, a candidate is created.                      *)
Written(k, R) ==
  LET same == [cs |-> candidates, lin |-> lineage]
      free == {c \in Cand : ~Exists(c) /\ \A d \in 1 .. c - 1 : Exists(d)}
  IN  IF Blocked(k, NoSubject, R, R) THEN {same}
      ELSE {IF FreshRows(k, R) = {} THEN same
            ELSE [cs |-> [candidates EXCEPT ![c].rows = @ \cup R,
                                            ![c].status = "NEW"],
                  lin |-> LinkedTo(c, k, R)] : c \in Existing(k)}
           \cup
           {[cs |-> [candidates EXCEPT ![c] =
                       [claim |-> k, rows |-> R, status |-> "NEW"]],
             lin |-> LinkedTo(c, k, R)] : c \in free}

(* What the next promotion may make of a live candidate c of tables w: hold  *)
(* it, promote it on accepted evidence, drop a stale one.  The guard of the  *)
(* Rust path passes no digests.                                              *)
Decisions(w, c) ==
  LET now == w.cs[c]
      evidence == {r \in Row : w.lin[now.claim][r] = c}
  IN  IF now = None \/ now.status \notin Live THEN {now}
      ELSE IF Blocked(now.claim, NoSubject, now.rows, {})
      THEN {[now EXCEPT !.status = "REJECTED"]}
      ELSE {[now EXCEPT !.status = s] : s \in
             {"OBSERVING"}
             \cup (IF evidence # {} THEN {"CONFIRMED"} ELSE {})
             \cup (IF now.status = "OBSERVING" THEN {"REJECTED"} ELSE {})}

Promoted(w) ==
  {cs \in [Cand -> UNION {Decisions(w, c) : c \in Cand}] :
     \A c \in Cand : cs[c] \in Decisions(w, c)}

(* The process stops: coroutines and the recovery flag are lost.             *)
Stop ==
  /\ crashes < MaxCrashes
  /\ crashes' = crashes + 1
  /\ asking' = [a \in Asker |-> Idle]
  /\ recovered' = FALSE

(* consolidate_group: write the candidates of the batch, then promote; the   *)
(* process may stop between the two transactions.                            *)
Consolidate(k, R) ==
  /\ writes < MaxWrites
  /\ writes' = writes + 1
  /\ \E w \in Written(k, R) :
       /\ lineage' = w.lin
       /\ \/ candidates' \in Promoted(w)
             /\ UNCHANGED <<asking, recovered, crashes>>
          \/ candidates' = w.cs
             /\ Stop
  /\ UNCHANGED <<attempts, tombstones, lastAsked, sent>>

Crash ==
  /\ Stop
  /\ UNCHANGED <<memory, attempts, tombstones, lastAsked, sent>>

-----------------------------------------------------------------------------
(* proactive_at_user of one coroutine                                        *)

Step(a, local) == asking' = [asking EXCEPT ![a] = local]
Goto(a, pc) == Step(a, [asking[a] EXCEPT !.pc = pc])

(* pick_target: an observed candidate with evidence, not the last one asked. *)
Pickable(c) == Is(c, "OBSERVING") /\ c # lastAsked /\ EvidenceOf(c) # {}

Pick(a, c) ==
  /\ asking[a].pc = "idle"
  /\ Pickable(c)
  /\ Step(a, [pc |-> "picked", cand |-> c, rows |-> EvidenceOf(c),
              contract |-> FALSE])
  /\ UNCHANGED <<memory, attempts, tombstones, lastAsked, recovered, sent,
                 crashes>>

(* The unique index over the active states of a claim.                       *)
Occupied(k) == \E i \in Attempts : attempts[i].claim = k
                                   /\ attempts[i].state \in Active

(* After resolve_nickname: the contract is built from the tables as they are *)
(* now, and the attempt is reserved unless the claim has an active one.  The *)
(* contract is not looked at before the turn has run.                        *)
Open(a) ==
  LET c == asking[a].cand
      k == candidates[c].claim
      i == Cardinality({j \in Attempts : attempts[j] # NoAttempt}) + 1
  IN  /\ asking[a].pc = "picked"
      /\ recovered
      /\ \/ /\ Occupied(k)
            /\ Step(a, Idle)
            /\ UNCHANGED attempts
         \/ /\ ~Occupied(k)
            /\ i \in Attempts
            /\ attempts' = [attempts EXCEPT ![i] =
                 [cand |-> c, claim |-> k, rows |-> asking[a].rows,
                  state |-> "RESERVED", due |-> FALSE]]
            /\ Step(a, [asking[a] EXCEPT !.pc = "reserved",
                                         !.contract = Is(c, "OBSERVING")])
      /\ UNCHANGED <<memory, tombstones, lastAsked, recovered, sent, crashes>>

(* validate_proactive_output looks at the candidate again before sending.    *)
AllowedSlip(a) == Enforce => asking[a].cand # None
Allowed(a) == Enforce => asking[a].contract /\ Is(asking[a].cand, "OBSERVING")

(* Every return between the reservation and the send: the turn failed, was   *)
(* cancelled or late, its output is empty, repeated, SKIP or against the     *)
(* contract.  No return touches the attempt.                                 *)
Abandon(a) ==
  /\ asking[a].pc = "reserved"
  /\ Step(a, Idle)
  /\ UNCHANGED <<memory, attempts, tombstones, lastAsked, recovered, sent,
                 crashes>>

Validate(a) ==
  /\ asking[a].pc = "reserved"
  /\ Allowed(a)
  /\ Goto(a, "sending")
  /\ UNCHANGED <<memory, attempts, tombstones, lastAsked, recovered, sent,
                 crashes>>

(* deliver_lines: the receipts say acknowledged, failed, or nothing certain; *)
(* of an uncertain question the group may have seen it or not.               *)
AttemptOf(a) == CHOOSE i \in Attempts : /\ attempts[i].cand = asking[a].cand
                                        /\ attempts[i].state = "RESERVED"

Deliver(a, receipt, reached) ==
  /\ asking[a].pc = "sending"
  /\ receipt = "acknowledged" => reached
  /\ receipt = "failed" => ~reached
  /\ sent' = IF reached THEN sent \cup {AttemptOf(a)} ELSE sent
  /\ Goto(a, receipt)
  /\ UNCHANGED <<memory, attempts, tombstones, lastAsked, recovered, crashes>>

(* mark_sent, mark_cancelled, mark_delivery_unknown: by candidate.           *)
Reserved(c) == {i \in In("RESERVED") : attempts[i].cand = c}

SettledSlip(receipt) ==
  IF receipt = "failed" THEN "CANCELLED" ELSE "PENDING_VERIFICATION"
Settled(receipt) ==
  CASE receipt = "acknowledged" -> "PENDING_VERIFICATION"
    [] receipt = "failed" -> "CANCELLED"
    [] receipt = "unresolved" -> "DELIVERY_UNKNOWN"

Mark(a) ==
  /\ asking[a].pc \in {"acknowledged", "failed", "unresolved"}
  /\ Verdict(Reserved(asking[a].cand), Settled(asking[a].pc))
  /\ IF asking[a].pc = "acknowledged" THEN Goto(a, "delivered")
     ELSE Step(a, Idle)
  /\ UNCHANGED <<memory, tombstones, lastAsked, recovered, sent, crashes>>

(* record_at, after the lines are recorded.                                  *)
RecordAt(a) ==
  /\ asking[a].pc = "delivered"
  /\ lastAsked' = asking[a].cand
  /\ Step(a, Idle)
  /\ UNCHANGED <<memory, attempts, tombstones, recovered, sent, crashes>>

-----------------------------------------------------------------------------
(* Settlement                                                                *)

(* settle_reply of a message of the person that replies to question i: the   *)
(* latest pending attempt of the conversation and the person is the only one *)
(* it can settle.  The deadline is not compared.                             *)
Latest(i) == attempts[i].state = "PENDING_VERIFICATION"
             /\ \A j \in In("PENDING_VERIFICATION") : j <= i

SettleReply(i, verdict) ==
  /\ recovered
  /\ i \in sent
  /\ Latest(i)
  /\ Verdict({i}, verdict)
  /\ IF verdict \in Negative THEN Rejects({i})
     ELSE UNCHANGED <<candidates, tombstones>>
  /\ UNCHANGED <<lineage, writes, lastAsked, asking, recovered, sent, crashes>>

(* The 300 seconds after the acknowledgement pass.                           *)
DeadlinePasses(i) ==
  /\ attempts[i].state = "PENDING_VERIFICATION"
  /\ ~attempts[i].due
  /\ attempts' = [attempts EXCEPT ![i].due = TRUE]
  /\ UNCHANGED <<memory, tombstones, lastAsked, asking, recovered, sent,
                 crashes>>

OverdueSlip == {i \in In("PENDING_VERIFICATION") :
  attempts[i].due /\ candidates[attempts[i].cand].status \in Live}
Overdue == {i \in In("PENDING_VERIFICATION") : attempts[i].due}

(* resolve_expired: the tick, and the scan at the first use of the store in  *)
(* a process (recover_on_startup; there is no SENDING row to recover).       *)
ResolveExpired ==
  /\ Overdue # {} \/ ~recovered
  /\ Verdict(Overdue, "UNANSWERED")
  /\ Rejects(Overdue)
  /\ recovered' = TRUE
  /\ UNCHANGED <<lineage, writes, lastAsked, asking, sent, crashes>>

-----------------------------------------------------------------------------
Verdicts == {"CONFIRMED", "DENIED", "UNCLEAR"}

Ask(a) ==
  \/ Open(a)
  \/ Abandon(a)
  \/ Validate(a)
  \/ \E receipt \in Receipts, reached \in BOOLEAN : Deliver(a, receipt, reached)
  \/ Mark(a)
  \/ RecordAt(a)

Next ==
  \/ \E k \in Claim : \E R \in SourcesOf[k] : Consolidate(k, R)
  \/ \E a \in Asker, c \in Cand : Pick(a, c)
  \/ \E a \in Asker : Ask(a)
  \/ \E i \in Attempts, verdict \in Verdicts : SettleReply(i, verdict)
  \/ \E i \in Attempts : DeadlinePasses(i)
  \/ ResolveExpired
  \/ Crash

Spec == Init /\ [][Next]_vars

(* Time passes and the tick of participation_tick_job comes again.           *)
FairSpec == Spec /\ \A i \in Attempts : WF_vars(DeadlinePasses(i))
                 /\ WF_vars(ResolveExpired)

-----------------------------------------------------------------------------
(* Properties                                                                *)

TypeOK ==
  /\ candidates \in [Cand -> {None} \cup CandRow]
  /\ lineage \in [Claim -> [Row -> Cand \cup {None}]]
  /\ attempts \in [Attempts -> AttemptRow]
  /\ tombstones \subseteq
       [claim : Claim \cup {None}, subject : {Person},
        digests : SUBSET Row, attempt : Attempts]
  /\ lastAsked \in Cand \cup {None}
  /\ asking \in [Asker -> AskRow]
  /\ recovered \in BOOLEAN
  /\ sent \subseteq Attempts
  /\ writes \in 0 .. MaxWrites
  /\ crashes \in 0 .. MaxCrashes

(* Silence and evasion are held against a claim only when its question is    *)
(* known to have reached the group: every attempt with a negative verdict    *)
(* was sent, whatever was lost or in doubt on the way (the receipts of       *)
(* proactive_at_user, lines 667-688, and resolve_expired).                   *)
RejectedForCause ==
  \A i \in Attempts : attempts[i].state \in Negative => i \in sent

(* Of one claim at most one question that reached the group is open,         *)
(* even when the process stopped between the send and its acknowledgement:   *)
(* the reservation before the send and the unique index keep the claim.      *)
OneOpenQuestion ==
  \A i, j \in Attempts :
    /\ i # j /\ {i, j} \subseteq sent
    /\ {attempts[i].state, attempts[j].state} \cap Final = {}
    => attempts[i].claim # attempts[j].claim

(* The candidate of a negative verdict never takes part again, neither by    *)
(* strengthening nor by promotion of a later batch: it is rejected, or had   *)
(* been promoted before the verdict.                                         *)
NegativeIsOff ==
  \A i \in Attempts :
    attempts[i].state \in Negative =>
      candidates[attempts[i].cand].status \notin Live

(* With the contract enforced, a coroutine that picked its candidate before  *)
(* the person denied it does not ask again after the denial.                 *)
NoSecondQuestion ==
  \A i, j \in Attempts :
    /\ attempts[i].state \in Negative
    /\ j \in sent
    /\ attempts[j].cand = attempts[i].cand
    => j <= i

(* An acknowledged question is decided at some time, across restarts.        *)
QuestionsSettle ==
  \A i \in Attempts :
    attempts[i].state = "PENDING_VERIFICATION"
      ~> attempts[i].state \in Negative \cup {"CONFIRMED"}

(* "the old candidate is not reset to NEW and no new one is created" from    *)
(* sources that a tombstone of the claim covers (consolidator.py:1843).      *)
NoReplay ==
  [][\A c \in Cand : ~Exists(c) /\ candidates'[c] # None =>
       \A t \in tombstones :
         t.claim = candidates'[c].claim => ~(candidates'[c].rows \subseteq t.digests)
    ]_vars

(* "CANCELLED: certainly not sent" (verification.py:12): without a stop of   *)
(* the process, a reservation always belongs to a coroutine that is asking.  *)
ReservationHeld ==
  \A i \in In("RESERVED") :
    \E a \in Asker : asking[a].pc # "idle" /\ asking[a].cand = attempts[i].cand

-----------------------------------------------------------------------------
(* The contract of QuestionContract.                                         *)

TopicOf(i) == [claim |-> attempts[i].claim, cand |-> attempts[i].cand]
OutcomeOf(state) ==
  CASE state = "none" -> "unused"
    [] state = "CONFIRMED" -> "yes"
    [] state \in Negative -> "no"
    [] state = "CANCELLED" -> "withdrawn"
    [] OTHER -> "open"

Contract == INSTANCE QuestionContract WITH
  Question <- Attempts,
  Topic <- [claim : Claim \cup {None}, cand : Cand \cup {None}],
  Guarded <- Enforce,
  topic <- [i \in Attempts |-> TopicOf(i)],
  seen <- sent,
  outcome <- [i \in Attempts |-> OutcomeOf(attempts[i].state)],
  learning <- {c \in Cand : Exists(c) /\ candidates[c].status \in Live}

(* Batches, coroutines that ask, receipts in doubt, replies, deadlines and   *)
(* stops of the process implement the contract of a question.                *)
ImplementsQuestions == Contract!Spec
=============================================================================
