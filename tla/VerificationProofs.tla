------------------------- MODULE VerificationProofs -------------------------
(* Theorems of Verification for every set of claims, rows, coroutines and    *)
(* every bound, with batches, replies, deadlines and stops at any time.      *)
EXTENDS Verification, FiniteSetTheorems, TLAPS

-----------------------------------------------------------------------------
(* The inductive invariant.                                                  *)

Used(i) == attempts[i].state # "none"
Busy == {"reserved", "sending"} \cup Receipts

(* Coroutines and attempts name candidates that exist, and their claims.     *)
Known ==
  /\ \A a \in Asker : asking[a].pc # "idle" =>
       asking[a].cand \in Cand /\ Exists(asking[a].cand)
  /\ \A i \in Attempts : Used(i) =>
       /\ attempts[i].cand \in Cand /\ Exists(attempts[i].cand)
       /\ attempts[i].claim = candidates[attempts[i].cand].claim

(* The attempts are used one after the other.                                *)
Numbered ==
  /\ \A i \in Attempts : Used(i) <=> attempts[i] # NoAttempt
  /\ \E n \in 0 .. MaxAttempts : \A i \in Attempts : Used(i) <=> i <= n
  /\ \A i \in sent : Used(i)

(* A newer attempt at a claim means that the older one has its verdict.      *)
InOrder ==
  \A i, j \in Attempts :
    i < j /\ Used(j) /\ attempts[i].claim = attempts[j].claim
      => attempts[i].state \in Final

(* A coroutine between reservation and receipt owns the attempt it reserved. *)
Held ==
  /\ \A a \in Asker : asking[a].pc \in Busy =>
       \E i \in Attempts : attempts[i].state = "RESERVED"
                           /\ attempts[i].cand = asking[a].cand
  /\ \A a, b \in Asker :
       a # b /\ asking[a].pc \in Busy /\ asking[b].pc \in Busy
         => asking[a].cand # asking[b].cand

(* What was acknowledged or settled was sent.                                *)
Sure ==
  /\ \A a \in Asker : asking[a].pc = "acknowledged" =>
       Reserved(asking[a].cand) \subseteq sent
  /\ \A i \in Attempts :
       attempts[i].state \in Negative \cup {"PENDING_VERIFICATION", "CONFIRMED"}
         => i \in sent

(* Past validation, no negative verdict stands against the candidate.        *)
Unsaid ==
  Enforce =>
    \A a \in Asker : asking[a].pc = "sending" =>
      \A i \in Attempts :
        attempts[i].state \in Negative => attempts[i].cand # asking[a].cand

IInv == TypeOK /\ Known /\ Numbered /\ InOrder /\ Held /\ Sure
        /\ NegativeIsOff /\ Unsaid /\ (Enforce => NoSecondQuestion)

-----------------------------------------------------------------------------
(* What a step may do to the candidates: none disappears or changes its      *)
(* claim, and one that is no longer live stays as it is.                     *)

CandStep(cs) ==
  /\ cs \in [Cand -> {None} \cup CandRow]
  /\ \A c \in Cand : Exists(c) =>
       /\ cs[c] # None
       /\ cs[c].claim = candidates[c].claim
       /\ candidates[c].status \notin Live => cs[c].status \notin Live

LEMMA NoneIsNoCandidate == None \notin CandRow
  BY NoneAssumption

LEMMA RejectsStep ==
  ASSUME TypeOK, NEW is \in SUBSET Attempts, Rejects(is)
  PROVE  /\ CandStep(candidates')
         /\ \A i \in is : attempts[i].cand \in Cand /\ Exists(attempts[i].cand)
              => candidates'[attempts[i].cand].status \notin Live
  <1>1. \A c \in Cand : Exists(c) => candidates[c] \in CandRow
    BY DEF TypeOK, Exists, CandRow
  <1>2. \A c \in Cand : Exists(c) =>
          [candidates[c] EXCEPT !.status = "REJECTED"] \in CandRow
    BY <1>1 DEF CandRow, Statuses, Live
  <1>3. \A c \in Cand : Exists(c) =>
          candidates[c].status \in Live \/ candidates'[c] = candidates[c]
    BY DEF Rejects
  <1>4. \A c \in Cand : 
          \/ candidates'[c] = candidates[c]
          \/ /\ Exists(c)
             /\ candidates'[c] = [candidates[c] EXCEPT !.status = "REJECTED"]
    BY DEF Rejects
  <1>5. candidates' \in [Cand -> {None} \cup CandRow]
    BY <1>2 DEF Rejects, TypeOK, CandRow
  <1>6. "REJECTED" \notin Live
    BY DEF Live
  <1>7. \A c \in Cand : Exists(c) =>
          /\ candidates'[c] # None
          /\ candidates'[c].claim = candidates[c].claim
          /\ candidates[c].status \notin Live => candidates'[c].status \notin Live
    BY <1>1, <1>2, <1>3, <1>4, <1>6, NoneIsNoCandidate DEF CandRow, Exists
  <1>8. ASSUME NEW i \in is, attempts[i].cand \in Cand, Exists(attempts[i].cand)
        PROVE  candidates'[attempts[i].cand].status \notin Live
    BY <1>1, <1>6, <1>8 DEF Rejects, CandRow
  <1> QED
    BY <1>5, <1>7, <1>8 DEF CandStep

LEMMA WrittenStep ==
  ASSUME TypeOK, NEW k \in Claim, NEW R \in SUBSET Row, NEW w \in Written(k, R)
  PROVE  /\ CandStep(w.cs)
         /\ w.lin \in [Claim -> [Row -> Cand \cup {None}]]
  <1>1. \A c \in Cand : Exists(c) => candidates[c] \in CandRow
    BY DEF TypeOK, Exists, CandRow
  <1>2. CandStep(candidates)
    BY DEF CandStep, TypeOK, Exists, CandRow
  <1>3. \A c \in Cand : LinkedTo(c, k, R) \in [Claim -> [Row -> Cand \cup {None}]]
    BY DEF LinkedTo, TypeOK
  <1>4. CASE w = [cs |-> candidates, lin |-> lineage]
    BY <1>2, <1>4 DEF TypeOK
  <1>5. ASSUME NEW c \in Existing(k),
               w = [cs |-> [candidates EXCEPT ![c].rows = @ \cup R, ![c].status = "NEW"],
                    lin |-> LinkedTo(c, k, R)]
        PROVE  CandStep(w.cs) /\ w.lin \in [Claim -> [Row -> Cand \cup {None}]]
    <2>1. c \in Cand /\ Exists(c) /\ candidates[c].status \in Live /\ candidates[c] \in CandRow
      BY <1>1 DEF Existing
    <2> DEFINE new == [[candidates[c] EXCEPT !.rows = @ \cup R] EXCEPT !.status = "NEW"]
    <2>2. new \in CandRow /\ new.claim = candidates[c].claim
      BY <2>1 DEF CandRow, Statuses, Live
    <2>3. w.cs = [candidates EXCEPT ![c] = new]
      BY <1>5, <2>1 DEF TypeOK
    <2> HIDE DEF new
    <2>4. CandStep(w.cs)
      BY <1>1, <2>1, <2>2, <2>3, NoneIsNoCandidate DEF CandStep, TypeOK, Exists, CandRow
    <2> QED
      BY <1>3, <1>5, <2>1, <2>4
  <1>6. ASSUME NEW c \in Cand, ~Exists(c),
               w = [cs |-> [candidates EXCEPT ![c] =
                              [claim |-> k, rows |-> R, status |-> "NEW"]],
                    lin |-> LinkedTo(c, k, R)]
        PROVE  CandStep(w.cs) /\ w.lin \in [Claim -> [Row -> Cand \cup {None}]]
    <2>1. [claim |-> k, rows |-> R, status |-> "NEW"] \in CandRow
      BY DEF CandRow, Statuses, Live
    <2>2. CandStep(w.cs)
      BY <1>1, <1>6, <2>1, NoneIsNoCandidate DEF CandStep, TypeOK, Exists, CandRow
    <2> QED
      BY <1>3, <1>6, <2>2
  <1> QED
    BY <1>4, <1>5, <1>6 DEF Written

LEMMA PromotedStep ==
  ASSUME TypeOK, NEW w, CandStep(w.cs), NEW cs \in Promoted(w)
  PROVE  CandStep(cs)
  <1>1. ASSUME NEW c \in Cand
        PROVE  \/ cs[c] = w.cs[c]
               \/ /\ w.cs[c] # None /\ w.cs[c].status \in Live
                  /\ \E s \in Statuses : cs[c] = [w.cs[c] EXCEPT !.status = s]
    <2>1. cs[c] \in Decisions(w, c)
      BY DEF Promoted
    <2> QED
      BY <2>1 DEF Decisions, Statuses, Live
  <1>2. \A c \in Cand : w.cs[c] # None => w.cs[c] \in CandRow
    BY DEF CandStep
  <1>3. ASSUME NEW c \in Cand PROVE cs[c] \in {None} \cup CandRow
    <2>1. w.cs[c] \in {None} \cup CandRow
      BY DEF CandStep
    <2>2. ASSUME w.cs[c] \in CandRow, NEW s \in Statuses
          PROVE  [w.cs[c] EXCEPT !.status = s] \in CandRow
      BY <2>2 DEF CandRow
    <2> QED
      BY <1>1, <1>2, <2>1, <2>2
  <1>4. cs \in [Cand -> {None} \cup CandRow]
    <2>1. cs = [c \in Cand |-> cs[c]]
      BY DEF Promoted
    <2> QED
      BY <1>3, <2>1
  <1>5. ASSUME NEW c \in Cand, Exists(c)
        PROVE  /\ cs[c] # None
               /\ cs[c].claim = candidates[c].claim
               /\ candidates[c].status \notin Live => cs[c].status \notin Live
    <2>1. /\ w.cs[c] # None /\ w.cs[c] \in CandRow
          /\ w.cs[c].claim = candidates[c].claim
          /\ candidates[c].status \notin Live => w.cs[c].status \notin Live
      BY <1>2, <1>5 DEF CandStep
    <2>2. CASE cs[c] = w.cs[c]
      BY <2>1, <2>2
    <2>3. ASSUME w.cs[c].status \in Live, NEW s \in Statuses,
                 cs[c] = [w.cs[c] EXCEPT !.status = s]
          PROVE  /\ cs[c] # None
                 /\ cs[c].claim = candidates[c].claim
                 /\ candidates[c].status \notin Live => cs[c].status \notin Live
      <3>1. cs[c] \in CandRow /\ cs[c].claim = w.cs[c].claim
        BY <2>1, <2>3 DEF CandRow
      <3> QED
        BY <2>1, <2>3, <3>1, NoneIsNoCandidate
    <2> QED
      BY <1>1, <2>2, <2>3
  <1> QED
    BY <1>4, <1>5 DEF CandStep

-----------------------------------------------------------------------------
LEMMA IdleRows == NoAttempt \in AttemptRow /\ Idle \in AskRow
  BY DEF NoAttempt, AttemptRow, States, Idle, AskRow

LEMMA StopTypes ==
  ASSUME TypeOK, Stop
  PROVE  /\ asking' \in [Asker -> AskRow] /\ recovered' \in BOOLEAN
         /\ crashes' \in 0 .. MaxCrashes
  <1>1. asking' \in [Asker -> AskRow] /\ recovered' \in BOOLEAN
    BY IdleRows DEF Stop
  <1>2. crashes' \in 0 .. MaxCrashes
    BY BoundsAssumption DEF Stop, TypeOK
  <1> QED
    BY <1>1, <1>2

LEMMA TypeConsolidate ==
  ASSUME TypeOK, NEW k \in Claim, NEW R \in SourcesOf[k], Consolidate(k, R)
  PROVE  CandStep(candidates') /\ TypeOK'
  <1>1. R \in SUBSET Row
    BY BoundsAssumption
  <1>2. PICK w \in Written(k, R) :
          /\ lineage' = w.lin
          /\ \/ candidates' \in Promoted(w) /\ UNCHANGED <<asking, recovered, crashes>>
             \/ candidates' = w.cs /\ Stop
    BY DEF Consolidate
  <1>3. CandStep(w.cs) /\ w.lin \in [Claim -> [Row -> Cand \cup {None}]]
    BY <1>1, WrittenStep
  <1>4. CandStep(candidates')
    BY <1>2, <1>3, PromotedStep
  <1>5. asking' \in [Asker -> AskRow] /\ recovered' \in BOOLEAN
        /\ crashes' \in 0 .. MaxCrashes
    BY <1>2, StopTypes DEF TypeOK
  <1>6. writes' \in 0 .. MaxWrites
    BY BoundsAssumption DEF Consolidate, TypeOK
  <1> QED
    BY <1>2, <1>3, <1>4, <1>5, <1>6 DEF Consolidate, TypeOK, CandStep

LEMMA CandSame ==
  ASSUME TypeOK, candidates' = candidates
  PROVE  CandStep(candidates')
  BY DEF CandStep, TypeOK, Exists, CandRow

(* The candidates after any step, and the types of what Rejects writes.      *)
LEMMA TypeRejects ==
  ASSUME TypeOK, NEW is \in SUBSET Attempts, Rejects(is)
  PROVE  /\ candidates' \in [Cand -> {None} \cup CandRow]
         /\ tombstones' \subseteq
              [claim : Claim \cup {None}, subject : {Person},
               digests : SUBSET Row, attempt : Attempts]
  <1>1. candidates' \in [Cand -> {None} \cup CandRow]
    BY RejectsStep DEF CandStep
  <1>2. \A i \in is : [claim |-> attempts[i].claim, subject |-> Person,
                       digests |-> attempts[i].rows, attempt |-> i]
          \in [claim : Claim \cup {None}, subject : {Person},
              digests : SUBSET Row, attempt : Attempts]
    BY DEF TypeOK, AttemptRow
  <1> QED
    BY <1>1, <1>2 DEF Rejects, TypeOK

LEMMA TypeVerdict ==
  ASSUME TypeOK, NEW is \in SUBSET Attempts, NEW s \in States, Verdict(is, s)
  PROVE  attempts' \in [Attempts -> AttemptRow]
  BY DEF Verdict, TypeOK, AttemptRow

-----------------------------------------------------------------------------
LEMMA InitIInv == Init => IInv
  <1> SUFFICES ASSUME Init PROVE IInv
    OBVIOUS
  <1>1. TypeOK
    <2>1. /\ candidates \in [Cand -> {None} \cup CandRow]
          /\ lineage \in [Claim -> [Row -> Cand \cup {None}]]
          /\ lastAsked \in Cand \cup {None}
      BY DEF Init
    <2>2. attempts \in [Attempts -> AttemptRow] /\ asking \in [Asker -> AskRow]
      BY IdleRows DEF Init
    <2>3. writes \in 0 .. MaxWrites /\ crashes \in 0 .. MaxCrashes
      BY BoundsAssumption DEF Init
    <2>4. tombstones = {} /\ sent = {} /\ recovered \in BOOLEAN
      BY DEF Init
    <2> QED
      BY <2>1, <2>2, <2>3, <2>4 DEF TypeOK
  <1>2. \A i \in Attempts : ~Used(i) /\ attempts[i] = NoAttempt /\ attempts[i].state = "none"
    BY DEF Init, Used, NoAttempt
  <1>3. \A a \in Asker : asking[a].pc = "idle"
    BY DEF Init, Idle
  <1>4. Known /\ Numbered /\ InOrder
    <2>1. \E n \in 0 .. MaxAttempts : \A i \in Attempts : Used(i) <=> i <= n
      BY <1>2, BoundsAssumption DEF Attempts
    <2> QED
      BY <1>2, <1>3, <2>1 DEF Known, Numbered, InOrder, Init
  <1>5. Held /\ Sure /\ Unsaid
    BY <1>2, <1>3 DEF Held, Sure, Unsaid, Busy, Receipts, Negative
  <1>6. NegativeIsOff /\ NoSecondQuestion
    BY <1>2 DEF NegativeIsOff, NoSecondQuestion, Negative
  <1> QED
    BY <1>1, <1>4, <1>5, <1>6 DEF IInv

-----------------------------------------------------------------------------
(* Of one claim at most one attempt is active.                               *)
LEMMA OneActive ==
  ASSUME TypeOK, InOrder, NEW i \in Attempts, NEW j \in Attempts, i # j,
         attempts[i].state \in Active, attempts[j].state \in Active
  PROVE  attempts[i].claim # attempts[j].claim
  <1>1. Used(i) /\ Used(j) /\ attempts[i].state \notin Final
        /\ attempts[j].state \notin Final
    BY DEF Used, Active, Final, Negative
  <1>2. i < j \/ j < i
    BY DEF Attempts
  <1> QED
    BY <1>1, <1>2 DEF InOrder

LEMMA SameCandidate ==
  ASSUME TypeOK, Known, InOrder, NEW i \in Attempts, NEW j \in Attempts,
         attempts[i].state \in Active, attempts[j].state \in Active,
         attempts[i].cand = attempts[j].cand
  PROVE  i = j
  <1>1. Used(i) /\ Used(j)
    BY DEF Used, Active
  <1>2. attempts[i].claim = attempts[j].claim
    BY <1>1 DEF Known
  <1> QED
    BY <1>2, OneActive

(* Steps that leave the attempts alone and in which coroutines stay as they  *)
(* are, end, pick a candidate or have their receipt recorded.                *)
LEMMA Background ==
  ASSUME IInv, TypeOK', CandStep(candidates'), attempts' = attempts, sent' = sent,
         \A a \in Asker :
           \/ asking'[a] = asking[a]
           \/ asking'[a].pc = "idle"
           \/ /\ asking'[a].pc = "picked"
              /\ asking'[a].cand \in Cand /\ Exists(asking'[a].cand)
  PROVE  IInv'
  <1> USE DEF IInv
  <1>1. \A c \in Cand : Exists(c) =>
          /\ Exists(c)'
          /\ candidates'[c].claim = candidates[c].claim
          /\ candidates[c].status \notin Live => candidates'[c].status \notin Live
    BY DEF CandStep, Exists
  <1>2. \A i \in Attempts : Used(i)' <=> Used(i)
    BY DEF Used
  <1>3. Known'
    <2>1. \A a \in Asker : asking'[a].pc # "idle" =>
            asking'[a].cand \in Cand /\ Exists(asking'[a].cand)
      BY DEF Known
    <2>2. \A a \in Asker : asking'[a].pc # "idle" =>
            asking'[a].cand \in Cand /\ Exists(asking[a].cand)'
      BY <2>1, <1>1 DEF Exists
    <2> QED
      BY <2>2, <1>1, <1>2 DEF Known
  <1>4. Numbered' /\ InOrder'
    <2>1. PICK n \in 0 .. MaxAttempts : \A i \in Attempts : Used(i) <=> i <= n
      BY DEF Numbered
    <2>2. \A i \in Attempts : Used(i)' <=> i <= n
      BY <1>2, <2>1
    <2>3. \A i \in Attempts : Used(i)' <=> attempts'[i] # NoAttempt
      BY <1>2 DEF Numbered
    <2>4. \A i \in sent' : Used(i)'
      BY <1>2 DEF Numbered, TypeOK
    <2>5. Numbered'
      BY <2>2, <2>3, <2>4 DEF Numbered
    <2>6. InOrder'
      BY <1>2 DEF InOrder
    <2> QED
      BY <2>5, <2>6
  <1>5. \A a \in Asker : asking'[a].pc \in Busy \cup {"acknowledged", "sending"}
                           => asking'[a] = asking[a]
    BY DEF Busy, Receipts
  <1>6. Held' /\ Sure' /\ Unsaid'
    <2>1. Held'
      BY <1>5 DEF Held
    <2>2. Sure'
      BY <1>5 DEF Sure, Reserved, In
    <2>3. Unsaid'
      BY <1>5 DEF Unsaid
    <2> QED
      BY <2>1, <2>2, <2>3
  <1>7. NegativeIsOff'
    <2>1. ASSUME NEW i \in Attempts, attempts[i].state \in Negative
          PROVE  candidates'[attempts[i].cand].status \notin Live
      <3>1. Used(i)
        BY <2>1 DEF Used, Negative
      <3> QED
        BY <1>1, <2>1, <3>1 DEF NegativeIsOff, Known
    <2> QED
      BY <2>1 DEF NegativeIsOff
  <1>8. (Enforce => NoSecondQuestion)'
    BY DEF NoSecondQuestion
  <1> QED
    BY <1>3, <1>4, <1>6, <1>7, <1>8

(* The settlement of pending attempts.                                       *)
LEMMA Settlement ==
  ASSUME IInv, TypeOK', NEW is \in SUBSET In("PENDING_VERIFICATION"),
         NEW s \in Negative \cup {"CONFIRMED"}, Verdict(is, s),
         \/ Rejects(is)
         \/ s = "CONFIRMED" /\ candidates' = candidates,
         asking' = asking, sent' = sent
  PROVE  IInv'
  <1> USE DEF IInv
  <1>1. is \in SUBSET Attempts /\ \A i \in is : attempts[i].state = "PENDING_VERIFICATION"
    BY DEF In
  <1>2. \A i \in Attempts :
          /\ attempts'[i].cand = attempts[i].cand
          /\ attempts'[i].claim = attempts[i].claim
          /\ i \in is => attempts'[i].state = s
          /\ i \notin is => attempts'[i] = attempts[i]
    BY DEF Verdict, TypeOK, AttemptRow
  <1>3. CandStep(candidates')
    BY <1>1, RejectsStep, CandSame
  <1>4. \A c \in Cand : Exists(c) =>
          /\ Exists(c)'
          /\ candidates'[c].claim = candidates[c].claim
          /\ candidates[c].status \notin Live => candidates'[c].status \notin Live
    BY <1>3 DEF CandStep, Exists
  <1>5. \A i \in Attempts : Used(i)' <=> Used(i)
    BY <1>1, <1>2 DEF Used, Negative
  <1>6. Known'
    <2>1. \A i \in Attempts : Used(i) =>
            /\ attempts'[i].cand \in Cand /\ Exists(attempts[i].cand)'
            /\ attempts'[i].claim = candidates'[attempts[i].cand].claim
      BY <1>2, <1>4 DEF Known
    <2> QED
      BY <1>2, <1>4, <1>5, <2>1 DEF Known, Exists
  <1>7. Numbered'
    <2>1. \A i \in is : attempts'[i] # NoAttempt
      BY <1>1, <1>2 DEF NoAttempt, Negative
    <2>2. \A i \in is : attempts[i] # NoAttempt
      BY <1>1 DEF NoAttempt
    <2>3. PICK n \in 0 .. MaxAttempts : \A i \in Attempts : Used(i) <=> i <= n
      BY DEF Numbered
    <2>4. \A i \in Attempts : Used(i)' <=> i <= n
      BY <1>5, <2>3
    <2>5. \A i \in Attempts : Used(i)' <=> attempts'[i] # NoAttempt
      BY <1>2, <1>5, <2>1, <2>2 DEF Numbered
    <2>6. \A i \in sent' : Used(i)'
      BY <1>5 DEF Numbered, TypeOK
    <2> QED
      BY <2>4, <2>5, <2>6 DEF Numbered
  <1>8. InOrder'
    <2>1. s \in Final
      BY DEF Final
    <2> QED
      BY <1>2, <1>5, <2>1 DEF InOrder
  <1>9. \A i \in Attempts : attempts'[i].state = "RESERVED"
                             <=> attempts[i].state = "RESERVED"
    BY <1>1, <1>2 DEF Negative
  <1>10. Held'
    BY <1>2, <1>9 DEF Held
  <1>11. Sure'
    <2>1. \A c \in Cand \cup {None} : Reserved(c)' = Reserved(c)
      BY <1>2, <1>9 DEF Reserved, In
    <2>2. \A i \in is : i \in sent
      BY <1>1 DEF Sure
    <2>3. \A a \in Asker : asking[a].cand \in Cand \cup {None}
      BY DEF TypeOK, AskRow
    <2> QED
      BY <1>2, <2>1, <2>2, <2>3 DEF Sure
  <1>12. NegativeIsOff'
    <2>1. ASSUME NEW i \in Attempts, attempts'[i].state \in Negative
          PROVE  candidates'[attempts[i].cand].status \notin Live
      <3>1. Used(i)
        BY <1>5, <2>1 DEF Used, Negative
      <3>2. CASE i \notin is
        BY <1>2, <1>4, <2>1, <3>1, <3>2 DEF NegativeIsOff, Known
      <3>3. CASE i \in is
        <4>1. Rejects(is)
          BY <1>2, <2>1, <3>3 DEF Negative
        <4> QED
          BY <1>1, <3>1, <3>3, <4>1, RejectsStep DEF Known
      <3> QED
        BY <3>2, <3>3
    <2> QED
      BY <1>2, <2>1 DEF NegativeIsOff
  <1>13. Unsaid'
    <2>1. ASSUME Enforce, NEW a \in Asker, asking[a].pc = "sending",
                 NEW i \in Attempts, attempts'[i].state \in Negative,
                 attempts[i].cand = asking[a].cand
          PROVE  FALSE
      <3>1. i \in is
        BY <1>2, <2>1 DEF Unsaid
      <3>2. PICK j \in Attempts : attempts[j].state = "RESERVED"
                                  /\ attempts[j].cand = asking[a].cand
        BY <2>1 DEF Held, Busy
      <3>3. attempts[i].state \in Active /\ attempts[j].state \in Active /\ i # j
        BY <1>1, <3>1, <3>2 DEF Active
      <3> QED
        BY <2>1, <3>2, <3>3, SameCandidate
    <2> QED
      BY <1>2, <2>1 DEF Unsaid
  <1>14. (Enforce => NoSecondQuestion)'
    <2>1. ASSUME Enforce, NEW i \in Attempts, NEW j \in Attempts,
                 attempts'[i].state \in Negative, j \in sent,
                 attempts[j].cand = attempts[i].cand
          PROVE  j <= i
      <3>1. CASE i \notin is
        BY <1>2, <2>1, <3>1 DEF NoSecondQuestion
      <3>2. CASE i \in is
        <4>1. Used(i) /\ Used(j)
          BY <1>1, <2>1, <3>2 DEF Used, Numbered
        <4>2. attempts[i].claim = attempts[j].claim
          BY <2>1, <4>1 DEF Known
        <4>3. attempts[i].state \notin Final
          BY <1>1, <3>2 DEF Final, Negative
        <4> QED
          BY <4>1, <4>2, <4>3 DEF InOrder, Attempts
      <3> QED
        BY <3>1, <3>2
    <2> QED
      BY <1>2, <2>1 DEF NoSecondQuestion
  <1> QED
    BY <1>6, <1>7, <1>8, <1>10, <1>11, <1>12, <1>13, <1>14

-----------------------------------------------------------------------------
(* A step that leaves the memory and the tombstones alone keeps the types of *)
(* everything but what it writes.                                            *)

(* The deadline of an acknowledged question passes.                          *)
LEMMA DeadlineStep ==
  ASSUME IInv, NEW i \in Attempts, DeadlinePasses(i)
  PROVE  IInv'
  <1> USE DEF IInv
  <1>1. \A j \in Attempts :
          /\ attempts'[j].cand = attempts[j].cand
          /\ attempts'[j].claim = attempts[j].claim
          /\ attempts'[j].state = attempts[j].state
          /\ j # i => attempts'[j] = attempts[j]
    BY DEF DeadlinePasses, TypeOK, AttemptRow
  <1>2. attempts'[i] \in AttemptRow /\ attempts'[i].state = "PENDING_VERIFICATION"
    BY DEF DeadlinePasses, TypeOK, AttemptRow
  <1>3. TypeOK'
    <2>1. attempts' \in [Attempts -> AttemptRow]
      BY <1>2 DEF DeadlinePasses, TypeOK
    <2> QED
      BY <2>1 DEF DeadlinePasses, TypeOK, memory
  <1>4. \A j \in Attempts : Used(j)' <=> Used(j)
    BY <1>1 DEF Used
  <1>5. /\ candidates' = candidates /\ asking' = asking /\ sent' = sent
    BY DEF DeadlinePasses, memory
  <1>6. Known'
    BY <1>1, <1>4, <1>5 DEF Known, Exists
  <1>7. Numbered'
    <2>1. PICK n \in 0 .. MaxAttempts : \A j \in Attempts : Used(j) <=> j <= n
      BY DEF Numbered
    <2>2. \A j \in Attempts : Used(j)' <=> j <= n
      BY <1>4, <2>1
    <2>3. Used(i) /\ attempts'[i] # NoAttempt
      BY <1>2, <1>4 DEF NoAttempt, Used
    <2>4. \A j \in Attempts : Used(j)' <=> attempts'[j] # NoAttempt
      BY <1>1, <1>4, <2>3 DEF Numbered
    <2>5. \A j \in sent' : Used(j)'
      BY <1>4, <1>5 DEF Numbered, TypeOK
    <2> QED
      BY <2>2, <2>4, <2>5 DEF Numbered
  <1>8. InOrder'
    BY <1>1, <1>4 DEF InOrder
  <1>9. Held' /\ Unsaid'
    BY <1>1, <1>5 DEF Held, Unsaid
  <1>10. Sure'
    <2>1. \A c : Reserved(c)' = Reserved(c)
      BY <1>1 DEF Reserved, In
    <2> QED
      BY <1>1, <1>5, <2>1 DEF Sure
  <1>11. NegativeIsOff' /\ (Enforce => NoSecondQuestion)'
    BY <1>1, <1>5 DEF NegativeIsOff, NoSecondQuestion
  <1> QED
    BY <1>3, <1>6, <1>7, <1>8, <1>9, <1>10, <1>11

(* The next free number, when the attempts are used one after the other.     *)
LEMMA NextAttempt ==
  ASSUME TypeOK, Numbered
  PROVE  \E n \in 0 .. MaxAttempts :
           /\ \A i \in Attempts : Used(i) <=> i <= n
           /\ Cardinality({j \in Attempts : attempts[j] # NoAttempt}) + 1 = n + 1
  <1>1. PICK n \in 0 .. MaxAttempts : \A i \in Attempts : Used(i) <=> i <= n
    BY DEF Numbered
  <1>2. {j \in Attempts : attempts[j] # NoAttempt} = 1 .. n
    BY <1>1, BoundsAssumption DEF Numbered, Attempts
  <1>3. Cardinality(1 .. n) = n
    BY FS_Interval
  <1> QED
    BY <1>1, <1>2, <1>3

(* What Goto and Open make of the locals of a coroutine.                     *)
LEMMA Locals ==
  ASSUME NEW r \in AskRow,
         NEW pc \in {"idle", "picked", "reserved", "sending", "delivered"} \cup Receipts,
         NEW contract \in BOOLEAN
  PROVE  /\ [r EXCEPT !.pc = pc] \in AskRow
         /\ [r EXCEPT !.pc = pc].pc = pc
         /\ [r EXCEPT !.pc = pc].cand = r.cand
         /\ [r EXCEPT !.pc = pc, !.contract = contract] \in AskRow
         /\ [r EXCEPT !.pc = pc, !.contract = contract].pc = pc
         /\ [r EXCEPT !.pc = pc, !.contract = contract].cand = r.cand
  BY DEF AskRow

(* A coroutine reserves an attempt, or gives up as the claim has one.        *)
LEMMA OpenStep ==
  ASSUME IInv, NEW a \in Asker, Open(a)
  PROVE  IInv'
  <1> USE DEF IInv
  <1> DEFINE c == asking[a].cand
             k == candidates[c].claim
             i == Cardinality({j \in Attempts : attempts[j] # NoAttempt}) + 1
             new == [cand |-> c, claim |-> k, rows |-> asking[a].rows,
                     state |-> "RESERVED", due |-> FALSE]
             next == [asking[a] EXCEPT !.pc = "reserved",
                                       !.contract = Is(c, "OBSERVING")]
  <1>1. /\ asking[a].pc = "picked"
        /\ candidates' = candidates /\ sent' = sent
        /\ UNCHANGED <<memory, tombstones, lastAsked, recovered, sent, crashes>>
    BY DEF Open, memory
  <1>2. c \in Cand /\ Exists(c) /\ candidates[c] \in CandRow /\ asking[a] \in AskRow
    BY <1>1 DEF Known, TypeOK, Exists
  <1>3. CASE asking' = [asking EXCEPT ![a] = Idle] /\ attempts' = attempts
    <2>1. TypeOK'
      BY <1>1, <1>3, IdleRows DEF TypeOK, memory
    <2>2. \A b \in Asker : asking'[b] = asking[b] \/ asking'[b].pc = "idle"
      BY <1>3 DEF TypeOK, Idle
    <2> QED
      BY <1>1, <1>3, <2>1, <2>2, CandSame, Background
  <1>4. CASE /\ ~Occupied(k)
             /\ i \in Attempts
             /\ attempts' = [attempts EXCEPT ![i] = new]
             /\ asking' = [asking EXCEPT ![a] = next]
    <2>1. new \in AttemptRow
      BY <1>2 DEF AttemptRow, AskRow, CandRow, States
    <2>2. next \in AskRow /\ next.pc = "reserved" /\ next.cand = c
      <3>1. PICK seen \in BOOLEAN : seen = Is(c, "OBSERVING")
        BY DEF Is, Exists
      <3>2. next = [asking[a] EXCEPT !.pc = "reserved", !.contract = seen]
        BY <3>1
      <3> HIDE DEF next
      <3> QED
        BY <1>2, <3>2, Locals
    <2>3. new.cand = c /\ new.claim = k /\ new.state = "RESERVED" /\ new # NoAttempt
      BY <1>2 DEF NoAttempt
    <2>4. PICK n \in 0 .. MaxAttempts :
            (\A j \in Attempts : Used(j) <=> j <= n) /\ i = n + 1
      BY NextAttempt
    <2>5. i \in Attempts /\ ~Used(i) /\ i \in Int
      BY <1>4, <2>4 DEF Attempts
    <2>6. /\ attempts'[i] = new
          /\ \A j \in Attempts : j # i => attempts'[j] = attempts[j]
          /\ asking'[a] = next
          /\ \A b \in Asker : b # a => asking'[b] = asking[b]
      BY <1>4 DEF TypeOK
    <2>7. \A j \in Attempts : attempts[j].claim = k => attempts[j].state \notin Active
      BY <1>4 DEF Occupied
    <2>8. TypeOK'
      BY <1>1, <1>4, <2>1, <2>2 DEF TypeOK, memory
    <2> HIDE DEF new, next, i
    <2>9. \A j \in Attempts : Used(j)' <=> Used(j) \/ j = i
      BY <2>3, <2>6 DEF Used
    <2>10. \A b \in Asker : asking[b].pc \in Busy => b # a /\ asking[b].cand # c
      <3>1. ASSUME NEW b \in Asker, asking[b].pc \in Busy, asking[b].cand = c
            PROVE  FALSE
        <4>1. PICK j \in Attempts : attempts[j].state = "RESERVED" /\ attempts[j].cand = c
          BY <3>1 DEF Held
        <4>2. Used(j)
          BY <4>1 DEF Used
        <4>3. attempts[j].claim = k
          BY <4>1, <4>2 DEF Known
        <4> QED
          BY <2>7, <4>1, <4>3 DEF Active
      <3> QED
        BY <1>1, <3>1 DEF Busy, Receipts
    <2>11. Known'
      <3>1. \A b \in Asker : asking'[b].pc # "idle" =>
              asking'[b].cand \in Cand /\ Exists(asking'[b].cand)
        BY <1>2, <2>2, <2>6 DEF Known
      <3>2. \A j \in Attempts : Used(j)' =>
              /\ attempts'[j].cand \in Cand /\ Exists(attempts'[j].cand)
              /\ attempts'[j].claim = candidates[attempts'[j].cand].claim
        BY <1>2, <2>3, <2>6, <2>9 DEF Known
      <3> QED
        BY <1>1, <3>1, <3>2 DEF Known, Exists
    <2>12. Numbered'
      <3>1. n + 1 \in 0 .. MaxAttempts
        BY <2>4, <2>5, BoundsAssumption DEF Attempts
      <3>2. \A j \in Attempts : Used(j)' <=> j <= n + 1
        BY <2>4, <2>9 DEF Attempts
      <3>3. \A j \in Attempts : Used(j)' <=> attempts'[j] # NoAttempt
        BY <2>3, <2>6, <2>9 DEF Numbered
      <3>4. \A j \in sent' : Used(j)'
        BY <1>1, <2>9 DEF Numbered, TypeOK
      <3> QED
        BY <3>1, <3>2, <3>3, <3>4 DEF Numbered
    <2>13. InOrder'
      <3>1. ASSUME NEW j \in Attempts, NEW m \in Attempts, j < m, Used(m)',
                   attempts'[j].claim = attempts'[m].claim
            PROVE  attempts'[j].state \in Final
        <4>1. CASE m # i
          <5>1. j # i
            BY <2>4, <2>9, <3>1, <4>1 DEF Attempts
          <5> QED
            BY <2>6, <2>9, <3>1, <4>1, <5>1 DEF InOrder
        <4>2. CASE m = i
          <5>1. j # i /\ Used(j)
            BY <2>4, <3>1, <4>2 DEF Attempts
          <5>2. attempts[j].claim = k /\ attempts'[j] = attempts[j]
            BY <2>3, <2>6, <3>1, <4>2, <5>1
          <5>3. attempts[j].state \in States /\ attempts[j].state # "none"
            BY <5>1 DEF Used, TypeOK, AttemptRow
          <5> QED
            BY <2>7, <5>2, <5>3 DEF States, Active
        <4> QED
          BY <4>1, <4>2
      <3> QED
        BY <3>1 DEF InOrder
    <2>14. Held'
      <3>1. ASSUME NEW b \in Asker, asking'[b].pc \in Busy
            PROVE  \E j \in Attempts : attempts'[j].state = "RESERVED"
                                       /\ attempts'[j].cand = asking'[b].cand
        <4>1. CASE b = a
          BY <2>2, <2>3, <2>5, <2>6, <4>1
        <4>2. CASE b # a
          <5>1. PICK j \in Attempts : attempts[j].state = "RESERVED"
                                      /\ attempts[j].cand = asking[b].cand
            BY <2>6, <3>1, <4>2 DEF Held
          <5>2. j # i
            BY <2>5, <5>1 DEF Used
          <5> QED
            BY <2>6, <4>2, <5>1, <5>2
        <4> QED
          BY <4>1, <4>2
      <3>2. ASSUME NEW b \in Asker, NEW d \in Asker, b # d,
                   asking'[b].pc \in Busy, asking'[d].pc \in Busy
            PROVE  asking'[b].cand # asking'[d].cand
        BY <2>2, <2>6, <2>10, <3>2 DEF Held
      <3> QED
        BY <3>1, <3>2 DEF Held
    <2>15. Sure'
      <3>1. ASSUME NEW b \in Asker, asking'[b].pc = "acknowledged",
                   NEW j \in Attempts, attempts'[j].state = "RESERVED",
                   attempts'[j].cand = asking'[b].cand
            PROVE  j \in sent
        <4>1. b # a /\ asking[b].cand # c /\ asking'[b] = asking[b]
          BY <2>2, <2>6, <2>10, <3>1 DEF Busy, Receipts
        <4>2. j # i
          BY <2>3, <2>6, <3>1, <4>1
        <4> QED
          BY <2>6, <3>1, <4>1, <4>2 DEF Sure, Reserved, In
      <3>2. ASSUME NEW j \in Attempts,
                   attempts'[j].state \in Negative \cup {"PENDING_VERIFICATION", "CONFIRMED"}
            PROVE  j \in sent
        BY <2>3, <2>6, <3>2 DEF Sure, Negative
      <3> QED
        BY <1>1, <3>1, <3>2 DEF Sure, Reserved, In
    <2>16. NegativeIsOff'
      <3>1. \A j \in Attempts : attempts'[j].state \in Negative =>
              candidates[attempts'[j].cand].status \notin Live
        BY <2>3, <2>6 DEF NegativeIsOff, Negative
      <3> QED
        BY <1>1, <3>1 DEF NegativeIsOff
    <2>17. Unsaid'
      BY <2>2, <2>3, <2>6 DEF Unsaid, Negative
    <2>18. (Enforce => NoSecondQuestion)'
      <3>1. \A j \in sent : j \in Attempts /\ j # i
        BY <2>5 DEF Numbered, TypeOK
      <3>2. \A j \in Attempts : attempts'[j].state \in Negative => j # i
        BY <2>3, <2>6 DEF Negative
      <3> QED
        BY <1>1, <2>6, <3>1, <3>2 DEF NoSecondQuestion
    <2> QED
      BY <2>8, <2>11, <2>12, <2>13, <2>14, <2>15, <2>16, <2>17, <2>18
  <1>5. \/ asking' = [asking EXCEPT ![a] = Idle] /\ attempts' = attempts
        \/ /\ ~Occupied(k)
           /\ i \in Attempts
           /\ attempts' = [attempts EXCEPT ![i] = new]
           /\ asking' = [asking EXCEPT ![a] = next]
    BY DEF Open, Step
  <1> QED
    BY <1>3, <1>4, <1>5

(* A coroutine passes validation.                                            *)
LEMMA ValidateStep ==
  ASSUME IInv, NEW a \in Asker, Validate(a)
  PROVE  IInv'
  <1> USE DEF IInv
  <1>1. /\ asking[a].pc = "reserved" /\ asking[a] \in AskRow
        /\ asking' = [asking EXCEPT ![a] = [asking[a] EXCEPT !.pc = "sending"]]
        /\ UNCHANGED <<memory, attempts, tombstones, lastAsked, recovered, sent, crashes>>
    BY DEF Validate, Goto, Step, TypeOK
  <1>2. [asking[a] EXCEPT !.pc = "sending"] \in AskRow
    BY <1>1, Locals DEF AskRow
  <1>3. /\ asking'[a].pc = "sending" /\ asking'[a].cand = asking[a].cand
        /\ \A b \in Asker : b # a => asking'[b] = asking[b]
    BY <1>1 DEF TypeOK, AskRow
  <1>4. TypeOK'
    BY <1>1, <1>2 DEF TypeOK, memory
  <1>5. /\ candidates' = candidates /\ attempts' = attempts /\ sent' = sent
        /\ \A b \in Asker : asking'[b].cand = asking[b].cand
        /\ \A b \in Asker : asking'[b].pc \in Busy <=> asking[b].pc \in Busy
    BY <1>1, <1>3 DEF memory, Busy
  <1>6. Known'
    BY <1>1, <1>3, <1>5 DEF Known, Exists, Used
  <1>7. Numbered' /\ InOrder'
    <2>1. \A i \in Attempts : Used(i)' <=> Used(i)
      BY <1>5 DEF Used
    <2>2. PICK n \in 0 .. MaxAttempts : \A i \in Attempts : Used(i) <=> i <= n
      BY DEF Numbered
    <2>3. \A i \in Attempts : Used(i)' <=> i <= n
      BY <2>1, <2>2
    <2>4. (\A i \in Attempts : Used(i)' <=> attempts'[i] # NoAttempt)
          /\ \A i \in sent' : Used(i)'
      BY <1>5, <2>1 DEF Numbered, TypeOK
    <2>5. Numbered'
      BY <2>3, <2>4 DEF Numbered
    <2>6. InOrder'
      BY <1>5, <2>1 DEF InOrder
    <2> QED
      BY <2>5, <2>6
  <1>8. Held'
    BY <1>5 DEF Held
  <1>9. Sure'
    BY <1>3, <1>5 DEF Sure, Reserved, In
  <1>10. NegativeIsOff' /\ (Enforce => NoSecondQuestion)'
    BY <1>5 DEF NegativeIsOff, NoSecondQuestion
  <1>11. Unsaid'
    <2>1. ASSUME Enforce, NEW i \in Attempts, attempts[i].state \in Negative
          PROVE  attempts[i].cand # asking[a].cand
      <3>1. candidates[asking[a].cand].status \in Live
        BY <2>1 DEF Validate, Allowed, Is, Live
      <3> QED
        BY <2>1, <3>1 DEF NegativeIsOff
    <2> QED
      BY <1>3, <1>5, <2>1 DEF Unsaid
  <1> QED
    BY <1>4, <1>6, <1>7, <1>8, <1>9, <1>10, <1>11

(* A question is delivered, with a receipt that may leave it in doubt.       *)
LEMMA DeliverStep ==
  ASSUME IInv, NEW a \in Asker, NEW receipt \in Receipts, NEW reached \in BOOLEAN,
         Deliver(a, receipt, reached)
  PROVE  IInv'
  <1> USE DEF IInv
  <1> DEFINE k == AttemptOf(a)
  <1>1. /\ asking[a].pc = "sending" /\ asking[a] \in AskRow
        /\ asking' = [asking EXCEPT ![a] = [asking[a] EXCEPT !.pc = receipt]]
        /\ sent' = IF reached THEN sent \cup {k} ELSE sent
        /\ UNCHANGED <<memory, attempts, tombstones, lastAsked, recovered, crashes>>
    BY DEF Deliver, Goto, Step, TypeOK
  <1>2. k \in Attempts /\ attempts[k].state = "RESERVED"
        /\ attempts[k].cand = asking[a].cand
    <2>1. \E i \in Attempts : attempts[i].cand = asking[a].cand
                              /\ attempts[i].state = "RESERVED"
      BY <1>1 DEF Held, Busy
    <2> QED
      BY <2>1 DEF AttemptOf
  <1> HIDE DEF k
  <1>3. [asking[a] EXCEPT !.pc = receipt] \in AskRow
    BY <1>1, Locals
  <1>4. /\ asking'[a].pc = receipt /\ asking'[a].cand = asking[a].cand
        /\ \A b \in Asker : b # a => asking'[b] = asking[b]
    BY <1>1 DEF TypeOK, AskRow
  <1>5. TypeOK'
    <2>1. sent' \subseteq Attempts
      BY <1>1, <1>2 DEF TypeOK
    <2> QED
      BY <1>1, <1>3, <2>1 DEF TypeOK, memory
  <1>6. /\ candidates' = candidates /\ attempts' = attempts
        /\ \A b \in Asker : asking'[b].cand = asking[b].cand
        /\ \A b \in Asker : asking'[b].pc \in Busy <=> asking[b].pc \in Busy
        /\ sent \subseteq sent'
    BY <1>1, <1>4 DEF memory, Busy
  <1>7. Known'
    BY <1>1, <1>4, <1>6 DEF Known, Exists, Used
  <1>8. Numbered' /\ InOrder'
    <2>1. \A i \in Attempts : Used(i)' <=> Used(i)
      BY <1>6 DEF Used
    <2>2. PICK n \in 0 .. MaxAttempts : \A i \in Attempts : Used(i) <=> i <= n
      BY DEF Numbered
    <2>3. \A i \in Attempts : Used(i)' <=> i <= n
      BY <2>1, <2>2
    <2>4. \A i \in Attempts : Used(i)' <=> attempts'[i] # NoAttempt
      BY <1>6, <2>1 DEF Numbered
    <2>5. \A i \in sent' : Used(i)'
      <3>1. Used(k)
        BY <1>2 DEF Used
      <3> QED
        BY <1>1, <1>2, <2>1, <3>1 DEF Numbered, TypeOK
    <2>6. Numbered'
      BY <2>3, <2>4, <2>5 DEF Numbered
    <2>7. InOrder'
      BY <1>6, <2>1 DEF InOrder
    <2> QED
      BY <2>6, <2>7
  <1>9. Held'
    BY <1>6 DEF Held
  <1>10. Sure'
    <2>1. ASSUME receipt = "acknowledged", NEW i \in Attempts,
                 attempts[i].state = "RESERVED", attempts[i].cand = asking[a].cand
          PROVE  i \in sent'
      <3>1. i = k
        BY <1>2, <2>1, SameCandidate DEF Active
      <3> QED
        BY <1>1, <2>1, <3>1 DEF Deliver
    <2>2. ASSUME NEW b \in Asker, asking'[b].pc = "acknowledged",
                 NEW i \in Attempts,
                 attempts[i].state = "RESERVED", attempts[i].cand = asking[b].cand
          PROVE  i \in sent'
      BY <1>4, <1>6, <2>1, <2>2 DEF Sure, Reserved, In
    <2> QED
      BY <1>6, <2>2 DEF Sure, Reserved, In
  <1>11. NegativeIsOff'
    BY <1>6 DEF NegativeIsOff
  <1>12. Unsaid'
    BY <1>4, <1>6 DEF Unsaid, Receipts
  <1>13. (Enforce => NoSecondQuestion)'
    <2>1. ASSUME Enforce, NEW i \in Attempts, attempts[i].state \in Negative
          PROVE  attempts[i].cand # attempts[k].cand
      BY <1>1, <1>2, <2>1 DEF Unsaid
    <2> QED
      BY <1>1, <1>6, <2>1 DEF NoSecondQuestion
  <1> QED
    BY <1>5, <1>7, <1>8, <1>9, <1>10, <1>11, <1>12, <1>13

(* The receipt is written down.                                              *)
LEMMA MarkStep ==
  ASSUME IInv, NEW a \in Asker, Mark(a)
  PROVE  IInv'
  <1> USE DEF IInv
  <1> DEFINE is == Reserved(asking[a].cand)
             s == Settled(asking[a].pc)
  <1>1. /\ asking[a].pc \in Receipts /\ asking[a] \in AskRow
        /\ Verdict(is, s)
        /\ candidates' = candidates /\ sent' = sent
        /\ UNCHANGED <<memory, tombstones, lastAsked, recovered, sent, crashes>>
    BY DEF Mark, memory, Receipts, TypeOK
  <1>2. /\ s \in {"PENDING_VERIFICATION", "CANCELLED", "DELIVERY_UNKNOWN"}
        /\ s = "PENDING_VERIFICATION" => asking[a].pc = "acknowledged"
    BY <1>1 DEF Settled, Receipts
  <1>3. is \in SUBSET Attempts /\ \A i \in is : attempts[i].state = "RESERVED"
                                                /\ attempts[i].cand = asking[a].cand
    BY DEF Reserved, In
  <1>4. \A i \in Attempts : attempts[i].state = "RESERVED"
                            /\ attempts[i].cand = asking[a].cand => i \in is
    BY DEF Reserved, In
  <1> HIDE DEF is, s
  <1>5. \A i \in Attempts :
          /\ attempts'[i].cand = attempts[i].cand
          /\ attempts'[i].claim = attempts[i].claim
          /\ i \in is => attempts'[i].state = s
          /\ i \notin is => attempts'[i] = attempts[i]
    BY <1>1 DEF Verdict, TypeOK, AttemptRow
  <1>6. \/ asking' = [asking EXCEPT ![a] = Idle]
        \/ asking' = [asking EXCEPT ![a] = [asking[a] EXCEPT !.pc = "delivered"]]
    BY DEF Mark, Goto, Step
  <1>7. asking' \in [Asker -> AskRow]
    <2>1. [asking[a] EXCEPT !.pc = "delivered"] \in AskRow
      BY <1>1, Locals
    <2> QED
      BY <1>6, <2>1, IdleRows DEF TypeOK
  <1>8. /\ asking'[a].pc \in {"idle", "delivered"}
        /\ asking'[a].pc # "idle" => asking'[a].cand = asking[a].cand
        /\ \A b \in Asker : b # a => asking'[b] = asking[b]
    BY <1>1, <1>6 DEF TypeOK, AskRow, Idle
  <1>9. TypeOK'
    <2>1. attempts' \in [Attempts -> AttemptRow]
      BY <1>1, <1>2, <1>3, TypeVerdict DEF States, Final
    <2> QED
      BY <1>1, <1>7, <2>1 DEF TypeOK, memory
  <1>10. \A i \in Attempts : Used(i)' <=> Used(i)
    BY <1>2, <1>3, <1>5 DEF Used
  <1>11. Known'
    <2>1. \A b \in Asker : asking'[b].pc # "idle" =>
            asking'[b].cand \in Cand /\ Exists(asking'[b].cand)
      BY <1>1, <1>8 DEF Known, Receipts
    <2>2. \A i \in Attempts : Used(i)' =>
            /\ attempts'[i].cand \in Cand /\ Exists(attempts'[i].cand)
            /\ attempts'[i].claim = candidates[attempts'[i].cand].claim
      BY <1>5, <1>10 DEF Known
    <2> QED
      BY <1>1, <2>1, <2>2 DEF Known, Exists
  <1>12. Numbered'
    <2>1. \A i \in is : attempts[i] # NoAttempt /\ attempts'[i] # NoAttempt
      BY <1>2, <1>3, <1>5 DEF NoAttempt
    <2>2. PICK n \in 0 .. MaxAttempts : \A i \in Attempts : Used(i) <=> i <= n
      BY DEF Numbered
    <2>3. \A i \in Attempts : Used(i)' <=> i <= n
      BY <1>10, <2>2
    <2>4. \A i \in Attempts : Used(i)' <=> attempts'[i] # NoAttempt
      BY <1>5, <1>10, <2>1 DEF Numbered
    <2>5. \A i \in sent' : Used(i)'
      BY <1>1, <1>10 DEF Numbered, TypeOK
    <2> QED
      BY <2>3, <2>4, <2>5 DEF Numbered
  <1>13. InOrder'
    <2>1. \A i \in is : attempts[i].state \notin Final
      BY <1>3 DEF Final, Negative
    <2> QED
      BY <1>5, <1>10, <2>1 DEF InOrder
  <1>14. \A b \in Asker : asking'[b].pc \in Busy =>
           /\ b # a /\ asking'[b] = asking[b] /\ asking[b].pc \in Busy
           /\ asking[b].cand # asking[a].cand
    BY <1>1, <1>8 DEF Busy, Receipts, Held
  <1>15. Held'
    <2>1. ASSUME NEW b \in Asker, asking'[b].pc \in Busy
          PROVE  \E i \in Attempts : attempts'[i].state = "RESERVED"
                                     /\ attempts'[i].cand = asking'[b].cand
      <3>1. PICK i \in Attempts : attempts[i].state = "RESERVED"
                                  /\ attempts[i].cand = asking[b].cand
        BY <1>14, <2>1 DEF Held
      <3>2. i \notin is
        BY <1>3, <1>14, <2>1, <3>1
      <3> QED
        BY <1>5, <1>14, <2>1, <3>1, <3>2
    <2>2. ASSUME NEW b \in Asker, NEW d \in Asker, b # d,
                 asking'[b].pc \in Busy, asking'[d].pc \in Busy
          PROVE  asking'[b].cand # asking'[d].cand
      BY <1>14, <2>2 DEF Held
    <2> QED
      BY <2>1, <2>2 DEF Held
  <1>16. Sure'
    <2>1. ASSUME NEW b \in Asker, asking'[b].pc = "acknowledged",
                 NEW i \in Attempts, attempts'[i].state = "RESERVED",
                 attempts'[i].cand = asking'[b].cand
          PROVE  i \in sent
      <3>1. asking'[b] = asking[b]
        BY <1>14, <2>1 DEF Busy, Receipts
      <3>2. i \notin is
        BY <1>2, <1>5, <2>1
      <3> QED
        BY <1>5, <2>1, <3>1, <3>2 DEF Sure, Reserved, In
    <2>2. ASSUME NEW i \in Attempts,
                 attempts'[i].state \in Negative \cup {"PENDING_VERIFICATION", "CONFIRMED"}
          PROVE  i \in sent
      <3>1. CASE i \notin is
        BY <1>5, <2>2, <3>1 DEF Sure
      <3>2. CASE i \in is
        <4>1. asking[a].pc = "acknowledged"
          BY <1>2, <1>5, <2>2, <3>2 DEF Negative
        <4> QED
          BY <3>2, <4>1 DEF Sure, is
      <3> QED
        BY <3>1, <3>2
    <2> QED
      BY <1>1, <2>1, <2>2 DEF Sure, Reserved, In
  <1>17. \A i \in Attempts : attempts'[i].state \in Negative =>
           attempts'[i] = attempts[i]
    BY <1>2, <1>5 DEF Negative
  <1>18. NegativeIsOff'
    BY <1>1, <1>17 DEF NegativeIsOff
  <1>19. Unsaid'
    <2>1. \A b \in Asker : asking'[b].pc = "sending" => asking'[b] = asking[b]
      BY <1>8
    <2> QED
      BY <1>17, <2>1 DEF Unsaid
  <1>20. (Enforce => NoSecondQuestion)'
    <2>1. \A i \in sent : i \in Attempts
      BY DEF TypeOK
    <2> QED
      BY <1>1, <1>5, <1>17, <2>1 DEF NoSecondQuestion
  <1> QED
    BY <1>9, <1>11, <1>12, <1>13, <1>15, <1>16, <1>18, <1>19, <1>20

-----------------------------------------------------------------------------
LEMMA AskStep ==
  ASSUME IInv, NEW a \in Asker, Ask(a)
  PROVE  IInv'
  <1>1. CASE Abandon(a) \/ RecordAt(a)
    <2>1. /\ asking' = [asking EXCEPT ![a] = Idle] /\ asking[a].pc # "idle"
          /\ candidates' = candidates /\ attempts' = attempts /\ sent' = sent
          /\ UNCHANGED <<lineage, writes, tombstones, recovered, crashes>>
          /\ lastAsked' = lastAsked \/ lastAsked' = asking[a].cand
      BY <1>1 DEF Abandon, RecordAt, Step, memory
    <2>2. asking[a].cand \in Cand
      BY <2>1 DEF IInv, Known
    <2>3. TypeOK'
      BY <2>1, <2>2, IdleRows DEF IInv, TypeOK
    <2>4. \A b \in Asker : asking'[b] = asking[b] \/ asking'[b].pc = "idle"
      BY <2>1 DEF Idle, IInv, TypeOK
    <2>5. CandStep(candidates')
      BY <2>1, CandSame DEF IInv
    <2> QED
      BY <2>1, <2>3, <2>4, <2>5, Background
  <1> QED
    BY <1>1, OpenStep, ValidateStep, DeliverStep, MarkStep DEF Ask

LEMMA PickStep ==
  ASSUME IInv, NEW a \in Asker, NEW c \in Cand, Pick(a, c)
  PROVE  IInv'
  <1> DEFINE local == [pc |-> "picked", cand |-> c, rows |-> EvidenceOf(c),
                       contract |-> FALSE]
  <1>1. /\ asking' = [asking EXCEPT ![a] = local] /\ Exists(c)
        /\ candidates' = candidates /\ attempts' = attempts /\ sent' = sent
        /\ UNCHANGED <<lineage, writes, tombstones, lastAsked, recovered, crashes>>
    BY DEF Pick, Pickable, Is, Step, memory
  <1>2. local \in AskRow
    BY DEF AskRow, EvidenceOf
  <1>3. TypeOK'
    BY <1>1, <1>2 DEF IInv, TypeOK
  <1>4. \A b \in Asker :
          \/ asking'[b] = asking[b]
          \/ /\ asking'[b].pc = "picked"
             /\ asking'[b].cand \in Cand /\ Exists(asking'[b].cand)
    BY <1>1 DEF IInv, TypeOK
  <1>5. CandStep(candidates')
    BY <1>1, CandSame DEF IInv
  <1> QED
    BY <1>1, <1>3, <1>4, <1>5, Background

LEMMA ConsolidateStep ==
  ASSUME IInv, NEW k \in Claim, NEW R \in SourcesOf[k], Consolidate(k, R)
  PROVE  IInv'
  <1>1. CandStep(candidates') /\ TypeOK'
    BY TypeConsolidate DEF IInv
  <1>2. attempts' = attempts /\ sent' = sent
    BY DEF Consolidate
  <1>3. asking' = asking \/ asking' = [b \in Asker |-> Idle]
    BY DEF Consolidate, Stop
  <1>4. \A b \in Asker : asking'[b] = asking[b] \/ asking'[b].pc = "idle"
    BY <1>3 DEF Idle
  <1> QED
    BY <1>1, <1>2, <1>4, Background

LEMMA CrashStep ==
  ASSUME IInv, Crash
  PROVE  IInv'
  <1>1. /\ candidates' = candidates /\ attempts' = attempts /\ sent' = sent
        /\ UNCHANGED <<lineage, writes, tombstones, lastAsked>>
        /\ asking' = [b \in Asker |-> Idle]
    BY DEF Crash, Stop, memory
  <1>2. TypeOK'
    BY <1>1, StopTypes DEF IInv, TypeOK, Crash
  <1>3. \A b \in Asker : asking'[b].pc = "idle"
    BY <1>1 DEF Idle
  <1>4. CandStep(candidates')
    BY <1>1, CandSame DEF IInv
  <1> QED
    BY <1>1, <1>2, <1>3, <1>4, Background

LEMMA SettleReplyStep ==
  ASSUME IInv, NEW i \in Attempts, NEW verdict \in Verdicts, SettleReply(i, verdict)
  PROVE  IInv'
  <1>1. {i} \in SUBSET In("PENDING_VERIFICATION")
    BY DEF SettleReply, Latest, In
  <1>2. verdict \in Negative \cup {"CONFIRMED"}
    BY DEF Verdicts, Negative
  <1>3. /\ Verdict({i}, verdict)
        /\ \/ Rejects({i})
           \/ verdict = "CONFIRMED" /\ candidates' = candidates /\ tombstones' = tombstones
        /\ asking' = asking /\ sent' = sent
        /\ UNCHANGED <<lineage, writes, lastAsked, recovered, crashes>>
    BY <1>2 DEF SettleReply
  <1>4. attempts' \in [Attempts -> AttemptRow]
    BY <1>2, <1>3, TypeVerdict DEF IInv, States, Final
  <1>5. TypeOK'
    BY <1>3, <1>4, TypeRejects DEF IInv, TypeOK
  <1> QED
    BY <1>1, <1>2, <1>3, <1>5, Settlement

LEMMA ResolveStep ==
  ASSUME IInv, ResolveExpired
  PROVE  IInv'
  <1>1. Overdue \in SUBSET In("PENDING_VERIFICATION") /\ Overdue \in SUBSET Attempts
    BY DEF Overdue, In
  <1>2. /\ Verdict(Overdue, "UNANSWERED") /\ Rejects(Overdue)
        /\ asking' = asking /\ sent' = sent /\ recovered' = TRUE
        /\ UNCHANGED <<lineage, writes, lastAsked, crashes>>
    BY DEF ResolveExpired
  <1>3. "UNANSWERED" \in Negative /\ "UNANSWERED" \in States
    BY DEF Negative, States, Final
  <1> HIDE DEF Overdue
  <1>4. attempts' \in [Attempts -> AttemptRow]
    BY <1>1, <1>2, <1>3, TypeVerdict DEF IInv
  <1>5. TypeOK'
    BY <1>1, <1>2, <1>4, TypeRejects DEF IInv, TypeOK
  <1> QED
    BY <1>1, <1>2, <1>3, <1>5, Settlement

LEMMA StutterStep ==
  ASSUME IInv, UNCHANGED vars
  PROVE  IInv'
  <1>1. /\ candidates' = candidates /\ attempts' = attempts /\ sent' = sent
        /\ asking' = asking
    BY DEF vars
  <1>2. TypeOK'
    BY DEF IInv, TypeOK, vars
  <1>3. CandStep(candidates')
    BY <1>1, CandSame DEF IInv
  <1> QED
    BY <1>1, <1>2, <1>3, Background

(* The invariant is inductive.                                               *)
THEOREM Inductive == Spec => []IInv
  <1>1. IInv /\ [Next]_vars => IInv'
    BY ConsolidateStep, PickStep, AskStep, SettleReplyStep, DeadlineStep,
       ResolveStep, CrashStep, StutterStep DEF Next
  <1> QED
    BY InitIInv, <1>1, PTL DEF Spec

(* The tables and the locals of coroutines keep their types.                 *)
THEOREM TypeCorrect == Spec => []TypeOK
  <1>1. IInv => TypeOK
    BY DEF IInv
  <1> QED
    BY Inductive, <1>1, PTL

(* No attempt gets a negative verdict unless its question was sent.          *)
THEOREM RejectionsHaveCause == Spec => []RejectedForCause
  <1>1. IInv => RejectedForCause
    BY DEF IInv, Sure, RejectedForCause
  <1> QED
    BY Inductive, <1>1, PTL

(* Of one claim at most one question that was sent is open.                  *)
THEOREM OneQuestionAtATime == Spec => []OneOpenQuestion
  <1>1. ASSUME IInv, NEW i \in Attempts, NEW j \in Attempts, i # j,
               i \in sent, j \in sent,
               attempts[i].state \notin Final, attempts[j].state \notin Final
        PROVE  attempts[i].claim # attempts[j].claim
    <2>1. Used(i) /\ Used(j)
      BY <1>1 DEF IInv, Numbered
    <2>2. i < j \/ j < i
      BY <1>1 DEF Attempts
    <2> QED
      BY <1>1, <2>1, <2>2 DEF IInv, InOrder
  <1>2. IInv => OneOpenQuestion
    BY <1>1 DEF OneOpenQuestion
  <1> QED
    BY Inductive, <1>2, PTL

(* A candidate with a negative verdict never takes part again.               *)
THEOREM NegativeStaysOff == Spec => []NegativeIsOff
  <1>1. IInv => NegativeIsOff
    BY DEF IInv
  <1> QED
    BY Inductive, <1>1, PTL

(* With the contract enforced, a claim is not asked again after a negative   *)
(* verdict on the same candidate.                                            *)
THEOREM AskedOnce == ASSUME Enforce PROVE Spec => []NoSecondQuestion
  <1>1. IInv => NoSecondQuestion
    BY DEF IInv
  <1> QED
    BY Inductive, <1>1, PTL
-----------------------------------------------------------------------------
(* The contract of QuestionContract.                                         *)

(* A reservation whose coroutine has not sent, or has failed to, was not     *)
(* seen.                                                                     *)
Unseen ==
  \A a \in Asker : asking[a].pc \in {"reserved", "sending", "failed"} =>
    Reserved(asking[a].cand) \cap sent = {}

Topics == [claim : Claim \cup {None}, cand : Cand \cup {None}]
TopicsNow == [i \in Attempts |-> TopicOf(i)]
Outcomes == [i \in Attempts |-> OutcomeOf(attempts[i].state)]
Learning == {c \in Cand : Exists(c) /\ candidates[c].status \in Live}

LEMMA OutcomeIs ==
  ASSUME NEW s \in States
  PROVE  /\ OutcomeOf(s) = "unused" <=> s = "none"
         /\ OutcomeOf(s) = "open" <=> s \in Active
         /\ s \in Negative => OutcomeOf(s) = "no"
         /\ OutcomeOf(s) = "no" => s \in Negative
         /\ s = "CONFIRMED" => OutcomeOf(s) = "yes"
         /\ s = "CANCELLED" => OutcomeOf(s) = "withdrawn"
  BY DEF OutcomeOf, States, Final, Negative, Active

LEMMA TopicIs ==
  ASSUME TypeOK, NEW i \in Attempts
  PROVE  /\ TopicOf(i) \in Topics /\ TopicOf(i).claim = attempts[i].claim
         /\ TopicOf(i).cand = attempts[i].cand /\ attempts[i].state \in States
         /\ TopicsNow[i] = TopicOf(i)
         /\ Outcomes[i] = OutcomeOf(attempts[i].state)
  BY DEF TopicOf, Topics, TopicsNow, Outcomes, TypeOK, AttemptRow

LEMMA RefusedIs ==
  ASSUME TypeOK
  PROVE  Contract!Refused =
           {attempts[i].cand : i \in {j \in Attempts : attempts[j].state \in Negative}}
  <1>1. \A i \in Attempts : Outcomes[i] = "no" <=> attempts[i].state \in Negative
    BY TopicIs, OutcomeIs
  <1>2. \A i \in Attempts : TopicsNow[i].cand = attempts[i].cand
    BY TopicIs
  <1>3. Contract!Refused = {TopicsNow[i].cand : i \in {j \in Attempts : Outcomes[j] = "no"}}
    BY DEF Contract!Refused, TopicsNow, Outcomes
  <1> QED
    BY <1>1, <1>2, <1>3

LEMMA OpenIs ==
  ASSUME TypeOK
  PROVE  Contract!Open = {i \in Attempts : attempts[i].state \in Active}
  <1>1. \A i \in Attempts : Outcomes[i] = "open" <=> attempts[i].state \in Active
    BY TopicIs, OutcomeIs
  <1>2. Contract!Open = {i \in Attempts : Outcomes[i] = "open"}
    BY DEF Contract!Open, Outcomes
  <1> QED
    BY <1>1, <1>2

(* A step that leaves topics, outcomes and what was seen alone.              *)
LEMMA LearnsContract ==
  ASSUME IInv, IInv', sent' = sent,
         \A i \in Attempts :
           /\ attempts'[i].cand = attempts[i].cand
           /\ attempts'[i].claim = attempts[i].claim
           /\ \/ attempts'[i].state = attempts[i].state
              \/ attempts[i].state \in Active /\ attempts'[i].state \in Active
  PROVE  Contract!Learn
  <1>1. TypeOK /\ TypeOK' /\ NegativeIsOff
    BY DEF IInv
  <1>2. TopicsNow' = TopicsNow
    BY DEF TopicsNow, TopicOf
  <1>3. \A i \in Attempts : OutcomeOf(attempts'[i].state) = OutcomeOf(attempts[i].state)
    <2>1. ASSUME NEW i \in Attempts, attempts[i].state \in Active,
                 attempts'[i].state \in Active
          PROVE  OutcomeOf(attempts'[i].state) = OutcomeOf(attempts[i].state)
      <3>1. Active \subseteq States
        BY DEF Active, States, Final
      <3>2. OutcomeOf(attempts[i].state) = "open"
        BY <2>1, <3>1, OutcomeIs
      <3>3. OutcomeOf(attempts'[i].state) = "open"
        BY <2>1, <3>1, OutcomeIs
      <3> QED
        BY <3>2, <3>3
    <2> QED
      BY <2>1
  <1>4. Outcomes' = Outcomes
    BY <1>3 DEF Outcomes
  <1>5. Learning' \cap Contract!Refused = {}
    <2>1. ASSUME NEW i \in Attempts, attempts[i].state \in Negative
          PROVE  attempts[i].cand \notin Learning'
      <3>1. attempts'[i].state \in Negative
        BY <2>1 DEF Active, Negative
      <3>2. candidates'[attempts'[i].cand].status \notin Live
        BY <3>1 DEF IInv, NegativeIsOff
      <3> QED
        BY <3>2 DEF Learning
    <2> QED
      BY <1>1, <2>1, RefusedIs
  <1> QED
    BY <1>2, <1>4, <1>5 DEF Contract!Learn, TopicsNow, Outcomes, Learning

(* Attempts `is` are settled with verdict s.                                 *)
LEMMA SettlesContract ==
  ASSUME IInv, IInv', sent' = sent, NEW is \in SUBSET Attempts,
         NEW s \in Negative \cup {"CONFIRMED", "CANCELLED"}, Verdict(is, s),
         \A i \in is : attempts[i].state \in Active,
         IF s = "CANCELLED" THEN is \cap sent = {} ELSE is \subseteq sent,
         IF s \in Negative THEN Rejects(is) ELSE candidates' = candidates
  PROVE  Contract!Next
  <1> DEFINE verdict == OutcomeOf(s)
  <1>1. TypeOK /\ TypeOK' /\ s \in States
    BY DEF IInv, States, Final, Negative
  <1>2. /\ verdict \in {"yes", "no", "withdrawn"}
        /\ verdict = "withdrawn" <=> s = "CANCELLED"
        /\ verdict = "no" <=> s \in Negative
    <2>1. "CONFIRMED" \notin Negative /\ "CANCELLED" \notin Negative
      BY DEF Negative
    <2> QED
      BY <1>1, <2>1, OutcomeIs
  <1>3. \A i \in Attempts :
          /\ attempts'[i].cand = attempts[i].cand
          /\ attempts'[i].claim = attempts[i].claim
          /\ i \in is => attempts'[i].state = s
          /\ i \notin is => attempts'[i].state = attempts[i].state
    BY <1>1 DEF Verdict, TypeOK, AttemptRow
  <1>4. TopicsNow' = TopicsNow
    BY <1>3 DEF TopicsNow, TopicOf
  <1>5. Outcomes' = [i \in Attempts |-> IF i \in is THEN verdict ELSE Outcomes[i]]
    <2>1. \A i \in Attempts : OutcomeOf(attempts'[i].state) =
            IF i \in is THEN verdict ELSE Outcomes[i]
      BY <1>3 DEF Outcomes
    <2> QED
      BY <2>1 DEF Outcomes
  <1>6. is \subseteq Contract!Open
    BY <1>1, OpenIs
  <1>7. Learning' = IF verdict = "no" THEN Learning \ {TopicsNow[i].cand : i \in is}
                    ELSE Learning
    <2>1. CASE s \notin Negative
      BY <1>2, <2>1 DEF Learning, Exists
    <2>2. CASE s \in Negative
      <3>1. Rejects(is)
        BY <2>2
      <3>2. \A i \in is : TopicsNow[i].cand = attempts[i].cand
        BY <1>1, TopicIs
      <3>3. \A c \in Cand : Exists(c) => candidates[c] \in CandRow
        BY <1>1 DEF TypeOK, Exists, CandRow
      <3>4. ASSUME NEW c \in Cand
            PROVE  c \in Learning' <=>
                     c \in Learning /\ ~ \E i \in is : attempts[i].cand = c
        <4>1. CASE (\E i \in is : attempts[i].cand = c) /\ Exists(c)
                   /\ candidates[c].status \in Live
          <5>1. candidates'[c] = [candidates[c] EXCEPT !.status = "REJECTED"]
            BY <3>1, <4>1 DEF Rejects
          <5>2. candidates'[c].status \notin Live
            BY <3>3, <4>1, <5>1 DEF CandRow, Live
          <5> QED
            BY <4>1, <5>2 DEF Learning
        <4>2. CASE ~((\E i \in is : attempts[i].cand = c) /\ Exists(c)
                     /\ candidates[c].status \in Live)
          <5>1. candidates'[c] = candidates[c]
            BY <3>1, <4>2 DEF Rejects
          <5> QED
            BY <4>2, <5>1 DEF Learning, Exists
        <4> QED
          BY <4>1, <4>2
      <3>5. Learning \subseteq Cand /\ Learning' \subseteq Cand
        BY DEF Learning
      <3> QED
        BY <1>2, <2>2, <3>2, <3>4, <3>5
    <2> QED
      BY <2>1, <2>2
  <1>8. IF verdict = "withdrawn" THEN is \cap sent = {} ELSE is \subseteq sent
    BY <1>2
  <1> HIDE DEF verdict
  <1>9. Contract!Settle(is, verdict)
    BY <1>4, <1>5, <1>6, <1>7, <1>8
    DEF Contract!Settle, TopicsNow, Outcomes, Learning
  <1> QED
    BY <1>2, <1>9 DEF Contract!Next

(* The coroutines that matter to Unseen.                                     *)
Unsent == {"reserved", "sending", "failed"}

(* A step that sends nothing and adds no coroutine to them.                  *)
LEMMA UnseenKept ==
  ASSUME IInv, Unseen, sent' = sent,
         \A i \in Attempts :
           /\ attempts'[i].cand = attempts[i].cand
           /\ attempts'[i].state = "RESERVED" => attempts[i].state = "RESERVED",
         \A a \in Asker :
           asking'[a].pc \in Unsent =>
             asking[a].pc \in Unsent /\ asking'[a].cand = asking[a].cand
  PROVE  Unseen'
  <1>1. ASSUME NEW a \in Asker, asking'[a].pc \in Unsent, NEW i \in Attempts,
               attempts'[i].state = "RESERVED", attempts'[i].cand = asking'[a].cand
        PROVE  i \notin sent'
    BY <1>1 DEF Unseen, Reserved, In, Unsent
  <1> QED
    BY <1>1 DEF Unseen, Reserved, In, Unsent

LEMMA QuietQuestion ==
  ASSUME IInv, Unseen, IInv', attempts' = attempts, sent' = sent,
         \A a \in Asker :
           asking'[a].pc \in Unsent =>
             asking[a].pc \in Unsent /\ asking'[a].cand = asking[a].cand
  PROVE  Unseen' /\ Contract!Next
  <1>1. Unseen'
    BY UnseenKept
  <1>2. Contract!Learn
    BY LearnsContract
  <1> QED
    BY <1>1, <1>2 DEF Contract!Next

LEMMA OpenQuestion ==
  ASSUME IInv, Unseen, IInv', NEW a \in Asker, Open(a)
  PROVE  Unseen' /\ Contract!Next
  <1> DEFINE c == asking[a].cand
             k == candidates[c].claim
             i == Cardinality({j \in Attempts : attempts[j] # NoAttempt}) + 1
             new == [cand |-> c, claim |-> k, rows |-> asking[a].rows,
                     state |-> "RESERVED", due |-> FALSE]
             next == [asking[a] EXCEPT !.pc = "reserved",
                                       !.contract = Is(c, "OBSERVING")]
  <1>1. /\ asking[a].pc = "picked" /\ candidates' = candidates /\ sent' = sent
        /\ TypeOK /\ TypeOK' /\ Known /\ Numbered /\ asking[a] \in AskRow
    BY DEF Open, memory, IInv, TypeOK
  <1>2. c \in Cand /\ Exists(c) /\ candidates[c] \in CandRow
    BY <1>1 DEF Known, TypeOK, Exists
  <1>3. CASE asking' = [asking EXCEPT ![a] = Idle] /\ attempts' = attempts
    <2>1. \A b \in Asker : asking'[b] = asking[b] \/ asking'[b].pc = "idle"
      BY <1>1, <1>3 DEF TypeOK, Idle
    <2> QED
      BY <1>1, <1>3, <2>1, QuietQuestion DEF Unsent
  <1>4. CASE /\ ~Occupied(k)
             /\ i \in Attempts
             /\ attempts' = [attempts EXCEPT ![i] = new]
             /\ asking' = [asking EXCEPT ![a] = next]
    <2>1. new.cand = c /\ new.claim = k /\ new.state = "RESERVED"
      OBVIOUS
    <2>2. next.pc = "reserved" /\ next.cand = c
      BY <1>1 DEF AskRow
    <2>3. PICK n \in 0 .. MaxAttempts :
            (\A j \in Attempts : Used(j) <=> j <= n) /\ i = n + 1
      BY <1>1, NextAttempt
    <2>4. i \in Attempts /\ ~Used(i)
      BY <1>4, <2>3 DEF Attempts
    <2>5. /\ attempts'[i] = new
          /\ \A j \in Attempts : j # i => attempts'[j] = attempts[j]
          /\ asking'[a] = next
          /\ \A b \in Asker : b # a => asking'[b] = asking[b]
      BY <1>1, <1>4 DEF TypeOK
    <2>6. \A j \in Attempts : attempts[j].claim = k => attempts[j].state \notin Active
      BY <1>4 DEF Occupied
    <2> HIDE DEF new, next, i
    <2>7. i \notin sent
      BY <1>1, <2>4 DEF Numbered
    <2>8. Unseen'
      <3>1. ASSUME NEW b \in Asker, asking'[b].pc \in Unsent, NEW j \in Attempts,
                   attempts'[j].state = "RESERVED", attempts'[j].cand = asking'[b].cand
            PROVE  j \notin sent'
        <4>1. CASE j = i
          BY <1>1, <2>7, <4>1
        <4>2. CASE j # i /\ b = a
          <5>1. attempts[j].state = "RESERVED" /\ attempts[j].cand = c
            BY <2>2, <2>5, <3>1, <4>2
          <5>2. attempts[j].claim = k
            BY <1>1, <5>1 DEF Known, Used
          <5> QED
            BY <2>6, <5>1, <5>2 DEF Active
        <4>3. CASE j # i /\ b # a
          BY <1>1, <2>5, <3>1, <4>3 DEF Unseen, Reserved, In, Unsent
        <4> QED
          BY <4>1, <4>2, <4>3
      <3> QED
        BY <3>1 DEF Unseen, Reserved, In, Unsent
    <2>9. attempts[i].state = "none"
      BY <2>4 DEF Used
    <2> DEFINE t == [claim |-> k, cand |-> c]
    <2>10. t \in Topics /\ t.claim = k
      BY <1>2 DEF Topics, CandRow
    <2>11. TopicsNow' = [TopicsNow EXCEPT ![i] = t]
      <3>1. ASSUME NEW j \in Attempts
            PROVE  TopicOf(j)' = IF j = i THEN t ELSE TopicOf(j)
        BY <2>1, <2>5 DEF TopicOf
      <3> HIDE DEF t
      <3> QED
        BY <3>1 DEF TopicsNow
    <2>12. Outcomes' = [Outcomes EXCEPT ![i] = "open"]
      <3>1. OutcomeOf("RESERVED") = "open"
        BY OutcomeIs DEF States, Active
      <3> QED
        BY <2>1, <2>5, <3>1 DEF Outcomes
    <2>13. Outcomes[i] = "unused"
      BY <1>1, <2>4, <2>9, TopicIs, OutcomeIs
    <2>14. \A p \in Contract!Open : TopicsNow[p].claim # t.claim
      BY <1>1, <2>6, <2>10, OpenIs, TopicIs
    <2>15. Learning' = Learning
      BY <1>1 DEF Learning, Exists
    <2> HIDE DEF t
    <2>16. Contract!DrawUp(i, t)
      BY <1>1, <2>11, <2>12, <2>13, <2>14, <2>15
      DEF Contract!DrawUp, TopicsNow, Outcomes, Learning
    <2> QED
      BY <2>4, <2>8, <2>10, <2>16 DEF Contract!Next, Topics
  <1>5. \/ asking' = [asking EXCEPT ![a] = Idle] /\ attempts' = attempts
        \/ /\ ~Occupied(k)
           /\ i \in Attempts
           /\ attempts' = [attempts EXCEPT ![i] = new]
           /\ asking' = [asking EXCEPT ![a] = next]
    BY DEF Open, Step
  <1> QED
    BY <1>3, <1>4, <1>5

LEMMA DeliverQuestion ==
  ASSUME IInv, Unseen, IInv', NEW a \in Asker, NEW receipt \in Receipts,
         NEW reached \in BOOLEAN, Deliver(a, receipt, reached)
  PROVE  Unseen' /\ Contract!Next
  <1> DEFINE k == AttemptOf(a)
  <1>1. /\ asking[a].pc = "sending" /\ asking[a] \in AskRow
        /\ asking' = [asking EXCEPT ![a] = [asking[a] EXCEPT !.pc = receipt]]
        /\ sent' = IF reached THEN sent \cup {k} ELSE sent
        /\ receipt = "failed" => ~reached
        /\ attempts' = attempts /\ candidates' = candidates
        /\ TypeOK /\ Held /\ Unsaid
    BY DEF Deliver, Goto, Step, TypeOK, IInv, memory
  <1>2. k \in Attempts /\ attempts[k].state = "RESERVED"
        /\ attempts[k].cand = asking[a].cand
    <2>1. \E i \in Attempts : attempts[i].cand = asking[a].cand
                              /\ attempts[i].state = "RESERVED"
      BY <1>1 DEF Held, Busy
    <2> QED
      BY <2>1 DEF AttemptOf
  <1> HIDE DEF k
  <1>3. /\ asking'[a].pc = receipt /\ asking'[a].cand = asking[a].cand
        /\ \A b \in Asker : b # a => asking'[b] = asking[b]
    BY <1>1 DEF TypeOK, AskRow
  <1>4. CASE ~reached
    <2>1. \A b \in Asker : asking'[b].pc \in Unsent =>
             asking[b].pc \in Unsent /\ asking'[b].cand = asking[b].cand
      BY <1>1, <1>3 DEF Unsent
    <2> QED
      BY <1>1, <1>4, <2>1, QuietQuestion
  <1>5. CASE reached
    <2>1. sent' = sent \cup {k} /\ receipt # "failed"
      BY <1>1, <1>5
    <2>2. Unseen'
      <3>1. ASSUME NEW b \in Asker, asking'[b].pc \in Unsent, NEW j \in Attempts,
                   attempts[j].state = "RESERVED", attempts[j].cand = asking'[b].cand
            PROVE  j \notin sent'
        <4>1. b # a
          BY <1>3, <2>1, <3>1 DEF Unsent, Receipts
        <4>2. asking'[b] = asking[b] /\ asking[b].cand # asking[a].cand
          BY <1>1, <1>3, <3>1, <4>1 DEF Held, Busy, Unsent, Receipts
        <4>3. j \notin sent
          BY <3>1, <4>2 DEF Unseen, Reserved, In, Unsent
        <4> QED
          BY <1>2, <2>1, <3>1, <4>2, <4>3
      <3> QED
        BY <1>1, <3>1 DEF Unseen, Reserved, In, Unsent
    <2>3. k \in Contract!Open
      BY <1>1, <1>2, OpenIs DEF Active
    <2>4. k \notin sent
      BY <1>1, <1>2 DEF Unseen, Reserved, In
    <2>5. Enforce => TopicsNow[k].cand \notin Contract!Refused
      BY <1>1, <1>2, RefusedIs, TopicIs DEF Unsaid
    <2>6. TopicsNow' = TopicsNow /\ Outcomes' = Outcomes /\ Learning' = Learning
      BY <1>1 DEF TopicsNow, TopicOf, Outcomes, Learning, Exists
    <2>7. Contract!Reach(k)
      BY <2>1, <2>3, <2>4, <2>5, <2>6
      DEF Contract!Reach, TopicsNow, Outcomes, Learning
    <2> QED
      BY <1>2, <2>2, <2>7 DEF Contract!Next
  <1> QED
    BY <1>4, <1>5

LEMMA MarkQuestion ==
  ASSUME IInv, Unseen, IInv', NEW a \in Asker, Mark(a)
  PROVE  Unseen' /\ Contract!Next
  <1> DEFINE is == Reserved(asking[a].cand)
             s == Settled(asking[a].pc)
  <1>1. /\ asking[a].pc \in Receipts /\ asking[a] \in AskRow /\ Verdict(is, s)
        /\ candidates' = candidates /\ sent' = sent /\ TypeOK
    BY DEF Mark, memory, Receipts, TypeOK, IInv
  <1>2. /\ s \in {"PENDING_VERIFICATION", "CANCELLED", "DELIVERY_UNKNOWN"}
        /\ s = "CANCELLED" => asking[a].pc = "failed"
    BY <1>1 DEF Settled, Receipts
  <1>3. is \in SUBSET Attempts /\ \A i \in is : attempts[i].state = "RESERVED"
    BY DEF Reserved, In
  <1>4. asking[a].pc = "failed" => is \cap sent = {}
    BY DEF Unseen
  <1> HIDE DEF is, s
  <1>5. \A i \in Attempts :
          /\ attempts'[i].cand = attempts[i].cand
          /\ attempts'[i].claim = attempts[i].claim
          /\ i \in is => attempts'[i].state = s
          /\ i \notin is => attempts'[i].state = attempts[i].state
    BY <1>1 DEF Verdict, TypeOK, AttemptRow
  <1>6. \/ asking' = [asking EXCEPT ![a] = Idle]
        \/ asking' = [asking EXCEPT ![a] = [asking[a] EXCEPT !.pc = "delivered"]]
    BY DEF Mark, Goto, Step
  <1>7. \A b \in Asker : asking'[b] = asking[b] \/ asking'[b].pc \in {"idle", "delivered"}
    BY <1>1, <1>6 DEF TypeOK, AskRow, Idle
  <1>8. Unseen'
    BY <1>1, <1>2, <1>3, <1>5, <1>7, UnseenKept DEF Unsent
  <1>9. CASE s = "CANCELLED"
    <2>1. "CANCELLED" \notin Negative
      BY DEF Negative
    <2> QED
      BY <1>1, <1>2, <1>3, <1>4, <1>8, <1>9, <2>1, SettlesContract DEF Active
  <1>10. CASE s # "CANCELLED"
    <2>1. Contract!Learn
      BY <1>1, <1>2, <1>3, <1>5, <1>10, LearnsContract DEF Active
    <2> QED
      BY <1>8, <2>1 DEF Contract!Next
  <1> QED
    BY <1>9, <1>10

LEMMA AskQuestion ==
  ASSUME IInv, Unseen, IInv', NEW a \in Asker, Ask(a)
  PROVE  Unseen' /\ Contract!Next
  <1>1. CASE Abandon(a) \/ RecordAt(a)
    <2>1. /\ asking' = [asking EXCEPT ![a] = Idle]
          /\ attempts' = attempts /\ sent' = sent
      BY <1>1 DEF Abandon, RecordAt, Step
    <2>2. \A b \in Asker : asking'[b] = asking[b] \/ asking'[b].pc = "idle"
      BY <2>1 DEF Idle, IInv, TypeOK
    <2> QED
      BY <2>1, <2>2, QuietQuestion DEF Unsent
  <1>2. CASE Validate(a)
    <2>1. /\ asking[a].pc = "reserved" /\ asking[a] \in AskRow
          /\ asking' = [asking EXCEPT ![a] = [asking[a] EXCEPT !.pc = "sending"]]
          /\ attempts' = attempts /\ sent' = sent
      BY <1>2 DEF Validate, Goto, Step, TypeOK, IInv
    <2>2. \A b \in Asker : asking'[b] = asking[b]
                           \/ (asking[b].pc = "reserved" /\ asking'[b].cand = asking[b].cand)
      BY <2>1 DEF IInv, TypeOK, AskRow
    <2> QED
      BY <2>1, <2>2, QuietQuestion DEF Unsent
  <1> QED
    BY <1>1, <1>2, OpenQuestion, DeliverQuestion, MarkQuestion DEF Ask

LEMMA StepQuestion ==
  ASSUME IInv, Unseen, [Next]_vars, IInv'
  PROVE  Unseen' /\ Contract!Next
  <1>1. ASSUME attempts' = attempts, sent' = sent,
               \A b \in Asker : asking'[b] = asking[b] \/ asking'[b].pc \in {"idle", "picked"}
        PROVE  Unseen' /\ Contract!Next
    BY <1>1, QuietQuestion DEF Unsent
  <1>2. ASSUME NEW k \in Claim, NEW R \in SourcesOf[k], Consolidate(k, R)
        PROVE  Unseen' /\ Contract!Next
    <2>1. attempts' = attempts /\ sent' = sent
      BY <1>2 DEF Consolidate
    <2>2. asking' = asking \/ asking' = [b \in Asker |-> Idle]
      BY <1>2 DEF Consolidate, Stop
    <2>3. \A b \in Asker : asking'[b] = asking[b] \/ asking'[b].pc = "idle"
      BY <2>2 DEF Idle
    <2> QED
      BY <1>1, <2>1, <2>3
  <1>3. ASSUME NEW a \in Asker, NEW c \in Cand, Pick(a, c)
        PROVE  Unseen' /\ Contract!Next
    <2>1. attempts' = attempts /\ sent' = sent
          /\ \A b \in Asker : asking'[b] = asking[b] \/ asking'[b].pc = "picked"
      BY <1>3 DEF Pick, Step, IInv, TypeOK
    <2> QED
      BY <1>1, <2>1
  <1>4. CASE Crash \/ UNCHANGED vars
    <2>1. attempts' = attempts /\ sent' = sent
          /\ (asking' = asking \/ asking' = [b \in Asker |-> Idle])
      BY <1>4 DEF Crash, Stop, vars
    <2>2. \A b \in Asker : asking'[b] = asking[b] \/ asking'[b].pc = "idle"
      BY <2>1 DEF Idle
    <2> QED
      BY <1>1, <2>1, <2>2
  <1>5. ASSUME NEW i \in Attempts, DeadlinePasses(i)
        PROVE  Unseen' /\ Contract!Next
    <2>1. \A j \in Attempts :
            /\ attempts'[j].cand = attempts[j].cand
            /\ attempts'[j].claim = attempts[j].claim
            /\ attempts'[j].state = attempts[j].state
      BY <1>5 DEF DeadlinePasses, IInv, TypeOK, AttemptRow
    <2>2. sent' = sent /\ asking' = asking
      BY <1>5 DEF DeadlinePasses
    <2>3. Contract!Learn /\ Unseen'
      BY <2>1, <2>2, LearnsContract, UnseenKept
    <2> QED
      BY <2>3 DEF Contract!Next
  <1>6. ASSUME NEW is \in SUBSET In("PENDING_VERIFICATION"),
               NEW s \in Negative \cup {"CONFIRMED"}, Verdict(is, s),
               IF s \in Negative THEN Rejects(is) ELSE candidates' = candidates,
               asking' = asking, sent' = sent
        PROVE  Unseen' /\ Contract!Next
    <2>1. /\ is \in SUBSET Attempts
          /\ \A i \in is : attempts[i].state = "PENDING_VERIFICATION"
      BY DEF In
    <2>2. is \subseteq sent /\ s # "CANCELLED"
      BY <2>1 DEF IInv, Sure, Negative
    <2>3. \A i \in Attempts :
            /\ attempts'[i].cand = attempts[i].cand
            /\ attempts'[i].state = "RESERVED" => attempts[i].state = "RESERVED"
      BY <1>6, <2>1 DEF Verdict, IInv, TypeOK, AttemptRow, Negative
    <2>4. Unseen'
      BY <1>6, <2>3, UnseenKept
    <2>5. Contract!Next
      BY <1>6, <2>1, <2>2, SettlesContract DEF Active
    <2> QED
      BY <2>4, <2>5
  <1>7. ASSUME NEW i \in Attempts, NEW verdict \in Verdicts, SettleReply(i, verdict)
        PROVE  Unseen' /\ Contract!Next
    <2>1. {i} \in SUBSET In("PENDING_VERIFICATION") /\ Verdict({i}, verdict)
          /\ asking' = asking /\ sent' = sent
          /\ IF verdict \in Negative THEN Rejects({i}) ELSE candidates' = candidates
      BY <1>7 DEF SettleReply, Latest, In
    <2>2. verdict \in Negative \cup {"CONFIRMED"}
      BY DEF Verdicts, Negative
    <2> QED
      BY <1>6, <2>1, <2>2
  <1>8. CASE ResolveExpired
    <2>1. Overdue \in SUBSET In("PENDING_VERIFICATION") /\ Verdict(Overdue, "UNANSWERED")
          /\ Rejects(Overdue) /\ asking' = asking /\ sent' = sent
          /\ "UNANSWERED" \in Negative
      BY <1>8 DEF ResolveExpired, Overdue, Negative
    <2> HIDE DEF Overdue
    <2> QED
      BY <1>6, <2>1
  <1> QED
    BY <1>2, <1>3, <1>4, <1>5, <1>7, <1>8, AskQuestion DEF Next

(* Batches, coroutines, receipts in doubt, replies, deadlines and stops keep *)
(* the contract of a question (service.py:545-690, verification.py).         *)
THEOREM QuestionIsKept == Spec => ImplementsQuestions
  <1>1. Init => Contract!Init /\ Unseen
    <2> SUFFICES ASSUME Init PROVE Contract!Init /\ Unseen
      OBVIOUS
    <2>1. IInv /\ sent = {} /\ \A i \in Attempts : attempts[i] = NoAttempt
      BY InitIInv DEF Init
    <2>2. TopicsNow \in [Attempts -> Topics]
      BY <2>1, TopicIs DEF IInv, TopicsNow
    <2>3. Outcomes = [i \in Attempts |-> "unused"]
      BY <2>1, OutcomeIs DEF Outcomes, NoAttempt, States
    <2>4. Learning = {}
      BY DEF Init, Learning, Exists
    <2>5. Unseen
      BY <2>1 DEF Unseen
    <2> QED
      BY <2>1, <2>2, <2>3, <2>4, <2>5
      DEF Contract!Init, TopicsNow, Outcomes, Learning, Topics
  <1>2. IInv /\ IInv' /\ Unseen /\ [Next]_vars => Unseen' /\ [Contract!Next]_(Contract!vars)
    BY StepQuestion
  <1> QED
    BY <1>1, <1>2, Inductive, PTL DEF Spec, ImplementsQuestions, Contract!Spec
=============================================================================
