----------------------------- MODULE CoronaProofs -----------------------------
(* Theorems of Corona for every set of contents and kinds of operation, and  *)
(* for every number of saves, edits, operations, crashes and starts.         *)
EXTENDS Corona, TLAPS

-----------------------------------------------------------------------------
(* The inductive invariant.                                                  *)

RevType == [content : Content, scope : {"nucleus", "corona"}]
Actions == {"none", "normal", "core_start", "core_previous", "controller_target"}
CorePhase == {"stopped", "starting", "ready", "draining", "backoff", "failed"}
CoreType == [phase : CorePhase, rev : Nat, left : Nat, once : BOOLEAN, first : BOOLEAN]

(* The transactions and the desired revision name revisions that exist.      *)
RefsOK(ts, n) ==
  \A i \in 1..Len(ts) : ts[i].rev \in 1..n /\ ts[i].expected \in 1..n

StoreTyped ==
  /\ revisions \in Seq(RevType)
  /\ txns \in Seq(TxnType)
  /\ RefsOK(txns, Len(revisions))
  /\ desired \in 1..Len(revisions)
  /\ disk # "idle" => txns # <<>>

Typed ==
  /\ StoreTyped
  /\ env \in Content
  /\ applied \in Nat
  /\ ops \in Seq(OpType)
  /\ decision \in [action : Actions, rev : Nat]
  /\ core \in CoreType

Changes == {"apply", "restart"}
Recovery == Terminal \cup {"restoring_config", "starting_previous"}
ChangePhases == {"prepared", "draining", "awaiting_controller_restart",
                 "verifying", "restoring_config", "starting_previous"}

(* One operation: a recovery that was begun is never left again, and the     *)
(* revision to go back to has been in effect.                                *)
RowOK(o, seen) ==
  /\ o.undos = IF o.attempted THEN 1 ELSE 0
  /\ o.attempted => o.kind \in Changes /\ o.phase \in Recovery
  /\ o.phase \in ChangePhases => o.kind \in Changes
  /\ o.prev = 1 \/ o.prev \in seen

RowsOK == \A i \in 1..Len(ops) : RowOK(ops[i], ready)

CoreOK == core.phase = "ready" => core.rev \in ready

(* What the latest operation o, the controller and the applied revision say  *)
(* of each other.                                                            *)
LatestOK(o, applied0, ctl0, decision0) ==
  /\ o.kind = "core_start" /\ o.phase \notin Terminal => applied0 = o.target
  /\ ctl0 = "restoring" => o.phase = "restoring_config"
  /\ ctl0 \in {"launching", "launched"} =>
       /\ decision0.action # "normal" => o.phase \notin Terminal
       /\ decision0.action = "controller_target" =>
            ~o.attempted /\ o.kind = "restart" /\ decision0.rev = o.target
       /\ decision0.action = "core_start" =>
            o.kind = "core_start" /\ decision0.rev = o.target
       /\ decision0.action = "core_previous" =>
            decision0.rev = o.prev /\ o.kind # "core_start"

BootOK ==
  /\ ctl = "restoring" => ops # <<>>
  /\ ctl \in {"launching", "launched"} =>
       /\ decision.action # "none"
       /\ decision.action # "normal" => ops # <<>>

Ahead == BootOK /\ (ops # <<>> => LatestOK(op, applied, ctl, decision))

IInv == Typed /\ RowsOK /\ CoreOK /\ AppliedWasReady /\ Ahead

TodoType == [revs : SUBSET Nat, core : {"", "running", "stopped"},
             phase : Terminal \cup {"", "restoring_config"}]

(* What is still to be committed for the open operation o: a revision that   *)
(* works, and an end that is true once that revision is applied.             *)
DueOK(o, due, applied0, core0, seen) ==
  /\ o.phase \notin Terminal
  /\ \A r \in due.revs : /\ r \in {o.target, o.prev} /\ (r = 1 \/ r \in seen)
                         /\ o.kind = "core_start" => r = o.target
  /\ due.phase = "succeeded" /\ o.kind # "core_stop" =>
       due.revs = {o.target} \/ (due.revs = {} /\ applied0 = o.target)
  /\ due.phase = "rolled_back" =>
       /\ core0.phase = "ready"
       /\ due.revs = {o.prev} \/ (due.revs = {} /\ applied0 = o.prev)
  /\ due.phase = "restoring_config" => ~o.attempted /\ o.kind \in Changes

Due ==
  /\ todo \in TodoType
  /\ todo # Nothing => ctl \in {"up", "recovering"}
  /\ todo.revs # {} \/ todo.phase # "" =>
       ops # <<>> /\ DueOK(op, todo, applied, core, ready)

Inv == IInv /\ Due

-----------------------------------------------------------------------------
(* Changes to the latest operation.                                          *)

(* The latest operation becomes o.                                           *)
Becomes(o) ==
  /\ ops # <<>> /\ o \in OpType
  /\ ops' \in Seq(OpType) /\ ops' # <<>> /\ Len(ops') = Len(ops) /\ op' = o
  /\ \A i \in 1..Len(ops) : i # Len(ops) => ops'[i] = ops[i]

LEMMA Latest ==
  ASSUME Typed, ops # <<>>
  PROVE  Len(ops) \in 1..Len(ops) /\ op \in OpType
  BY DEF Typed, op

LEMMA ReplaceLatest ==
  ASSUME Typed, ops # <<>>, NEW o \in OpType, ops' = [ops EXCEPT ![Len(ops)] = o]
  PROVE  Becomes(o)
  <1>1. Len(ops) \in Nat /\ Len(ops) \in 1..Len(ops) /\ ops \in Seq(OpType)
    BY Latest DEF Typed
  <1>2. ops' \in Seq(OpType) /\ Len(ops') = Len(ops)
    BY <1>1
  <1>3. ops'[Len(ops)] = o
    BY <1>1
  <1>4. \A i \in 1..Len(ops) : i # Len(ops) => ops'[i] = ops[i]
    BY <1>1
  <1>5. ops' # <<>>
    BY <1>1, <1>2
  <1> QED
    BY <1>2, <1>3, <1>4, <1>5 DEF Becomes, op

(* o is the latest operation but for its phase.                              *)
Moved(o, p) ==
  /\ o.phase = p /\ o.kind = op.kind /\ o.target = op.target /\ o.prev = op.prev
  /\ o.scope = op.scope /\ o.attempted = op.attempted /\ o.undos = op.undos

LEMMA PhaseStep ==
  ASSUME Typed, ops # <<>>, NEW p \in Phase, SetPhase(p)
  PROVE  \E o \in OpType : Becomes(o) /\ Moved(o, p)
  <1> DEFINE o == [op EXCEPT !.phase = p]
  <1>1. op \in OpType
    BY Latest
  <1>2. o \in OpType /\ Moved(o, p)
    BY <1>1 DEF OpType, Moved
  <1>3. ops' = [ops EXCEPT ![Len(ops)] = o]
    BY DEF SetPhase, op
  <1> HIDE DEF o
  <1> QED
    BY <1>2, <1>3, ReplaceLatest

LEMMA RecoveryStep ==
  ASSUME Typed, ops # <<>>, ToRecovery
  PROVE  \E o \in OpType :
           /\ Becomes(o)
           /\ o.phase = "restoring_config" /\ o.kind = op.kind /\ o.target = op.target
           /\ o.prev = op.prev /\ o.attempted = TRUE /\ o.undos = op.undos + 1
  <1> DEFINE o == [op EXCEPT !.phase = "restoring_config", !.attempted = TRUE,
                             !.undos = @ + 1]
  <1>1. op \in OpType
    BY Latest
  <1>2. /\ o \in OpType
        /\ o.phase = "restoring_config" /\ o.kind = op.kind /\ o.target = op.target
        /\ o.prev = op.prev /\ o.attempted = TRUE /\ o.undos = op.undos + 1
    <2>1. op.undos + 1 \in Nat /\ "restoring_config" \in Phase
      BY <1>1 DEF OpType, Phase
    <2>2. o = [[[op EXCEPT !.phase = "restoring_config"] EXCEPT !.attempted = TRUE]
                 EXCEPT !.undos = op.undos + 1]
      BY <1>1 DEF OpType
    <2>3. [op EXCEPT !.phase = "restoring_config"] \in OpType
      BY <1>1, <2>1 DEF OpType
    <2>4. \A r \in OpType : /\ [r EXCEPT !.attempted = TRUE] \in OpType
                            /\ [r EXCEPT !.undos = op.undos + 1] \in OpType
      BY <2>1 DEF OpType
    <2>5. o \in OpType
      BY <2>2, <2>3, <2>4
    <2> QED
      BY <1>1, <2>2, <2>5 DEF OpType
  <1>3. ops' = [ops EXCEPT ![Len(ops)] = o]
    BY DEF ToRecovery, op, Typed
  <1> HIDE DEF o
  <1> QED
    BY <1>2, <1>3, ReplaceLatest

LEMMA StartedStep ==
  ASSUME Typed, ops # <<>>,
         ops' = [ops EXCEPT ![Len(ops)].phase = "starting", ![Len(ops)].started = TRUE]
  PROVE  \E o \in OpType : Becomes(o) /\ Moved(o, "starting")
  <1> DEFINE o == [op EXCEPT !.phase = "starting", !.started = TRUE]
  <1>1. op \in OpType
    BY Latest
  <1>2. o \in OpType /\ Moved(o, "starting")
    BY <1>1 DEF OpType, Moved, Phase
  <1>3. ops' = [ops EXCEPT ![Len(ops)] = o]
    BY DEF op, Typed
  <1> HIDE DEF o
  <1> QED
    BY <1>2, <1>3, ReplaceLatest

(* The invariant after a step that changes the latest operation.             *)
LEMMA BecomesInv ==
  ASSUME IInv, Typed', NEW o, Becomes(o), ready' = ready,
         CoreOK', AppliedWasReady', BootOK', RowOK(o, ready),
         LatestOK(o, applied', ctl', decision')
  PROVE  IInv'
  <1>1. RowsOK'
    <2>1. \A i \in 1..Len(ops) : i # Len(ops) => RowOK(ops'[i], ready)
      BY DEF Becomes, IInv, RowsOK
    <2>2. RowOK(ops'[Len(ops')], ready)
      BY DEF Becomes, op
    <2> QED
      BY <2>1, <2>2 DEF RowsOK, Becomes
  <1>2. Ahead'
    BY DEF Ahead, Becomes
  <1> QED
    BY <1>1, <1>2 DEF IInv

(* ... and after one that leaves the operations alone.                       *)
LEMMA SameInv ==
  ASSUME IInv, Typed', ops' = ops, applied' = applied, ready \subseteq ready', CoreOK',
         BootOK', ops # <<>> => LatestOK(op, applied, ctl', decision')
  PROVE  IInv'
  <1>1. RowsOK' /\ AppliedWasReady'
    BY DEF IInv, RowsOK, RowOK, AppliedWasReady
  <1>2. Ahead'
    BY DEF Ahead, op
  <1> QED
    BY <1>1, <1>2 DEF IInv

-----------------------------------------------------------------------------
(* The configuration store leaves the operations and the core alone.         *)

TxnStates == {"PREPARED", "COMMITTED", "ABORTED", "CONFLICT", "ROLLED_BACK"}

LEMMA MarkTxn ==
  ASSUME NEW t \in Seq(TxnType), NEW k \in Nat, NEW state \in TxnStates,
         NEW n \in Nat, RefsOK(t, n)
  PROVE  /\ [t EXCEPT ![k].state = state] \in Seq(TxnType)
         /\ Len([t EXCEPT ![k].state = state]) = Len(t)
         /\ RefsOK([t EXCEPT ![k].state = state], n)
  <1>1. CASE k \in 1..Len(t)
    <2>1. t[k] \in TxnType
      BY <1>1
    <2> DEFINE r == [t[k] EXCEPT !.state = state]
    <2>2. r \in TxnType /\ r.rev = t[k].rev /\ r.expected = t[k].expected
      BY <2>1 DEF TxnType, TxnStates
    <2> HIDE DEF r
    <2>3. /\ [t EXCEPT ![k] = r] \in Seq(TxnType) /\ Len([t EXCEPT ![k] = r]) = Len(t)
          /\ \A i \in 1..Len(t) : [t EXCEPT ![k] = r][i] = IF i = k THEN r ELSE t[i]
      BY <1>1, <2>2
    <2>4. RefsOK([t EXCEPT ![k] = r], n)
      BY <1>1, <2>2, <2>3 DEF RefsOK
    <2> QED
      BY <2>3, <2>4 DEF r
  <1>2. CASE k \notin 1..Len(t)
    <2>1. [t EXCEPT ![k].state = state] = t
      BY <1>2
    <2> QED
      BY <2>1
  <1> QED
    BY <1>1, <1>2

LEMMA AppendTxn ==
  ASSUME NEW t \in Seq(TxnType), NEW x \in TxnType, NEW n \in Nat, NEW m \in Nat,
         n <= m, RefsOK(t, n), x.rev \in 1..m, x.expected \in 1..m
  PROVE  /\ Append(t, x) \in Seq(TxnType) /\ Append(t, x) # <<>>
         /\ RefsOK(Append(t, x), m)
  <1>1. /\ Len(t) \in Nat /\ Len(Append(t, x)) = Len(t) + 1
        /\ Append(t, x)[Len(t) + 1] = x
        /\ \A i \in 1..Len(t) : Append(t, x)[i] = t[i]
        /\ Append(t, x) \in Seq(TxnType) /\ Append(t, x) # <<>>
    OBVIOUS
  <1>2. RefsOK(Append(t, x), m)
    BY <1>1 DEF RefsOK
  <1> QED
    BY <1>1, <1>2

LEMMA LastTyped ==
  ASSUME Typed, txns # <<>>
  PROVE  /\ Len(txns) \in Nat /\ Len(txns) # 0 /\ LastTxn \in TxnType
         /\ LastTxn.rev \in 1..Len(revisions)
  <1>1. txns \in Seq(TxnType) /\ Len(txns) \in 1..Len(txns)
    BY DEF Typed, StoreTyped
  <1> QED
    BY <1>1 DEF Typed, StoreTyped, LastTxn, RefsOK

LEMMA MarkTyped ==
  ASSUME Typed, txns # <<>>, NEW state \in TxnStates, Mark(state)
  PROVE  /\ txns' \in Seq(TxnType) /\ txns' # <<>>
         /\ RefsOK(txns', Len(revisions))
  <1>1. txns \in Seq(TxnType) /\ Len(txns) \in Nat /\ Len(txns) # 0
        /\ Len(revisions) \in Nat /\ RefsOK(txns, Len(revisions))
    BY LastTyped DEF Typed, StoreTyped
  <1>2. txns' \in Seq(TxnType) /\ Len(txns') = Len(txns)
        /\ RefsOK(txns', Len(revisions))
    BY <1>1, MarkTxn DEF Mark
  <1> QED
    BY <1>1, <1>2

LEMMA ImportTyped ==
  ASSUME Typed, NEW d \in 1..Len(revisions), Import(d)
  PROVE  /\ revisions' \in Seq(RevType) /\ desired' \in 1..Len(revisions')
         /\ Len(revisions') \in Nat /\ Len(revisions) <= Len(revisions')
  <1>1. revisions \in Seq(RevType) /\ env \in Content /\ Len(revisions) \in Nat
    BY DEF Typed, StoreTyped
  <1>2. \A x \in Scopes : [content |-> env, scope |-> x] \in RevType
    BY <1>1, KindAssumption DEF RevType
  <1>3. \A r \in RevType : /\ Append(revisions, r) \in Seq(RevType)
                           /\ Len(Append(revisions, r)) = Len(revisions) + 1
    BY <1>1
  <1>4. \/ revisions' = revisions /\ desired' = d
        \/ \E x \in Scopes :
             /\ revisions' = Append(revisions, [content |-> env, scope |-> x])
             /\ desired' = Len(revisions) + 1
    BY DEF Import
  <1>5. ASSUME revisions' = revisions, desired' = d
        PROVE  /\ revisions' \in Seq(RevType) /\ Len(revisions') = Len(revisions)
               /\ desired' \in 1..Len(revisions')
    BY <1>1, <1>5
  <1>6. ASSUME NEW x \in Scopes,
               revisions' = Append(revisions, [content |-> env, scope |-> x]),
               desired' = Len(revisions) + 1
        PROVE  /\ revisions' \in Seq(RevType) /\ Len(revisions') = Len(revisions) + 1
               /\ desired' \in 1..Len(revisions')
    <2>1. revisions' \in Seq(RevType) /\ Len(revisions') = Len(revisions) + 1
      BY <1>2, <1>3, <1>6
    <2> QED
      BY <1>1, <1>6, <2>1
  <1>7. /\ revisions' \in Seq(RevType) /\ desired' \in 1..Len(revisions')
        /\ \/ Len(revisions') = Len(revisions)
           \/ Len(revisions') = Len(revisions) + 1
    BY <1>4, <1>5, <1>6
  <1> QED
    BY <1>1, <1>7

LEMMA RefsGrow ==
  ASSUME NEW ts, NEW n \in Nat, NEW m \in Nat, n <= m, RefsOK(ts, n)
  PROVE  RefsOK(ts, m)
  BY DEF RefsOK

(* An import that leaves the log alone.                                      *)
LEMMA ImportStore ==
  ASSUME Typed, Import(desired), UNCHANGED <<txns, disk>>
  PROVE  StoreTyped'
  <1>1. /\ revisions' \in Seq(RevType) /\ desired' \in 1..Len(revisions')
        /\ Len(revisions') \in Nat /\ Len(revisions) <= Len(revisions')
    BY ImportTyped DEF Typed, StoreTyped
  <1>2. Len(revisions) \in Nat /\ RefsOK(txns, Len(revisions))
    BY DEF Typed, StoreTyped
  <1>3. RefsOK(txns, Len(revisions'))
    BY <1>1, <1>2, RefsGrow
  <1> QED
    BY <1>1, <1>3 DEF Typed, StoreTyped

LEMMA UndoTyped ==
  ASSUME Typed, NEW r \in Nat, UndoBegin(r)
  PROVE  StoreTyped'
  <1>1. CASE UNCHANGED <<revisions, txns, desired, conflict, touched, disk>>
    BY <1>1 DEF Typed, StoreTyped
  <1>2. CASE Import(desired) /\ UNCHANGED <<txns, disk>>
    BY <1>2, ImportStore
  <1>3. ASSUME NEW i \in SavesOf(r),
               txns' = Append(txns,
                    [state |-> "PREPARED", purpose |-> "rollback",
                     expected |-> r, rev |-> txns[i].expected,
                     before |-> env, after |-> txns[i].before, of |-> i]),
               desired = r, UNCHANGED <<revisions, desired>>
        PROVE  StoreTyped'
    <2>1. i \in 1..Len(txns) /\ txns \in Seq(TxnType) /\ i \in Nat /\ env \in Content
          /\ Len(revisions) \in Nat /\ RefsOK(txns, Len(revisions))
          /\ r \in 1..Len(revisions)
      BY <1>3 DEF SavesOf, Typed, StoreTyped
    <2>2. txns[i] \in TxnType /\ txns[i].expected \in 1..Len(revisions)
      BY <2>1 DEF RefsOK
    <2> DEFINE t == [state |-> "PREPARED", purpose |-> "rollback",
                     expected |-> r, rev |-> txns[i].expected,
                     before |-> env, after |-> txns[i].before, of |-> i]
    <2>3. t \in TxnType /\ t.expected = r /\ t.rev = txns[i].expected
      BY <2>1, <2>2 DEF TxnType
    <2> HIDE DEF t
    <2>4. Append(txns, t) \in Seq(TxnType) /\ Append(txns, t) # <<>>
          /\ RefsOK(Append(txns, t), Len(revisions))
      BY <2>1, <2>2, <2>3, AppendTxn
    <2> QED
      BY <1>3, <2>4 DEF t, Typed, StoreTyped
  <1> QED
    BY <1>1, <1>2, <1>3 DEF UndoBegin

Quiet == UNCHANGED <<ops, applied, core, ready, decision>>

LEMMA QuietInv ==
  ASSUME IInv, Typed', Quiet, ctl' = ctl
  PROVE  IInv'
  BY SameInv DEF Quiet, IInv, Ahead, BootOK, CoreOK

LEMMA StoreStep ==
  ASSUME IInv,
         \/ \E c \in Content : SaveBegin(c) \/ Edit(c)
         \/ Store \/ Restore \/ BootRestore
  PROVE  IInv'
  <1>0. Typed
    BY DEF IInv
  <1>1. ASSUME NEW c \in Content, SaveBegin(c) PROVE IInv'
    <2>1. Quiet /\ ctl' = ctl /\ env' = env
      BY <1>1 DEF SaveBegin, Quiet, procVars
    <2>2. CASE Import(desired) /\ UNCHANGED <<txns, disk>>
      <3>1. Typed'
        BY <1>0, <2>1, <2>2, ImportStore DEF Typed, Quiet
      <3> QED
        BY <2>1, <3>1, QuietInv
    <2>3. ASSUME NEW x \in Scopes, Intact,
                 revisions' = Append(revisions, [content |-> c, scope |-> x]),
                 txns' = Append(txns, [state |-> "PREPARED", purpose |-> "save",
                                   expected |-> desired,
                                   rev |-> Len(revisions) + 1,
                                   before |-> env, after |-> c, of |-> 0]),
                 desired' = desired
          PROVE  IInv'
      <3> DEFINE t == [state |-> "PREPARED", purpose |-> "save", expected |-> desired,
                       rev |-> Len(revisions) + 1, before |-> env, after |-> c, of |-> 0]
                 r == [content |-> c, scope |-> x]
      <3>0. /\ txns \in Seq(TxnType) /\ revisions \in Seq(RevType)
            /\ RefsOK(txns, Len(revisions)) /\ desired \in 1..Len(revisions)
            /\ Len(revisions) \in Nat /\ env \in Content
        BY <1>0 DEF Typed, StoreTyped
      <3>1. t \in TxnType /\ r \in RevType
            /\ t.rev = Len(revisions) + 1 /\ t.expected = desired
        BY <3>0, KindAssumption DEF TxnType, RevType
      <3> HIDE DEF t, r
      <3>2. /\ Append(txns, t) \in Seq(TxnType) /\ Append(txns, t) # <<>>
            /\ RefsOK(Append(txns, t), Len(revisions) + 1)
        BY <3>0, <3>1, AppendTxn
      <3>3. /\ Append(revisions, r) \in Seq(RevType)
            /\ Len(Append(revisions, r)) = Len(revisions) + 1
        BY <3>0, <3>1
      <3>5. StoreTyped'
        BY <2>3, <3>0, <3>2, <3>3 DEF t, r, StoreTyped
      <3>4. Typed'
        BY <1>0, <2>1, <3>5 DEF Typed, Quiet
      <3> QED
        BY <2>1, <3>4, QuietInv
    <2> QED
      BY <1>1, <2>2, <2>3 DEF SaveBegin
  <1>2. ASSUME NEW c \in Content, Edit(c) PROVE IInv'
    <2>1. Quiet /\ ctl' = ctl /\ Typed'
      BY <1>0, <1>2 DEF Edit, Quiet, procVars, dbVars, Typed, StoreTyped
    <2> QED
      BY <2>1, QuietInv
  <1>3. CASE SaveCheck
    <2>1. Quiet /\ ctl' = ctl /\ UNCHANGED <<env, revisions, desired>> /\ txns # <<>>
      BY <1>0, <1>3 DEF SaveCheck, Quiet, procVars, history, Typed, StoreTyped
    <2>2. txns' = txns \/ Mark("CONFLICT")
      BY <1>3 DEF SaveCheck
    <2>3. txns' \in Seq(TxnType) /\ txns' # <<>> /\ RefsOK(txns', Len(revisions))
      BY <1>0, <2>1, <2>2, MarkTyped DEF Typed, StoreTyped, TxnStates
    <2>4. StoreTyped'
      BY <1>0, <2>1, <2>3 DEF Typed, StoreTyped
    <2> QED
      BY <1>0, <2>1, <2>4, QuietInv DEF Typed, Quiet
  <1>4. CASE Replace
    <2>1. Quiet /\ ctl' = ctl /\ UNCHANGED <<txns, revisions, desired>> /\ txns # <<>>
          /\ env' = LastTxn.after
      BY <1>0, <1>4 DEF Replace, Quiet, procVars, history, dbVars, Typed, StoreTyped
    <2>2. LastTxn.after \in Content
      BY <1>0, <2>1, LastTyped DEF TxnType
    <2>3. StoreTyped'
      BY <1>0, <2>1 DEF Typed, StoreTyped
    <2> QED
      BY <1>0, <2>1, <2>2, <2>3, QuietInv DEF Typed, Quiet
  <1>5. ASSUME NEW ts \in Seq(TxnType), ts # <<>>, RefsOK(ts, Len(revisions)),
               txns # <<>>, Settle(ts)
        PROVE  IInv'
    <2>1. Quiet /\ ctl' = ctl /\ UNCHANGED <<env, revisions>>
      BY <1>5 DEF Settle, Quiet, procVars
    <2>2. \/ txns' = ts /\ desired' = LastTxn.rev
          \/ Mark("CONFLICT") /\ desired' = desired
      BY <1>5 DEF Settle
    <2>3. LastTxn.rev \in 1..Len(revisions)
      BY <1>0, <1>5, LastTyped
    <2>4. /\ txns' \in Seq(TxnType) /\ txns' # <<>> /\ desired' \in 1..Len(revisions)
          /\ RefsOK(txns', Len(revisions))
      BY <1>0, <1>5, <2>2, <2>3, MarkTyped DEF Typed, StoreTyped, TxnStates
    <2>5. StoreTyped'
      BY <1>0, <2>1, <2>4 DEF Typed, StoreTyped
    <2> QED
      BY <1>0, <2>1, <2>5, QuietInv DEF Typed, Quiet
  <1>6. CASE SaveCommit
    <2>1. txns # <<>> /\ txns \in Seq(TxnType) /\ Len(txns) \in Nat /\ Len(txns) # 0
          /\ RefsOK(txns, Len(revisions)) /\ Len(revisions) \in Nat
      BY <1>0, <1>6, LastTyped DEF SaveCommit, Typed, StoreTyped
    <2> DEFINE ts == [txns EXCEPT ![Len(txns)].state = "COMMITTED"]
    <2>2. ts \in Seq(TxnType) /\ Len(ts) = Len(txns) /\ RefsOK(ts, Len(revisions))
      BY <2>1, MarkTxn DEF TxnStates
    <2>3. Settle(ts)
      BY <1>6 DEF SaveCommit
    <2> HIDE DEF ts
    <2>4. ts # <<>>
      BY <2>1, <2>2
    <2> QED
      BY <1>5, <2>1, <2>2, <2>3, <2>4
  <1>7. CASE UndoCommit
    <2>1. txns # <<>> /\ txns \in Seq(TxnType) /\ Len(txns) \in Nat /\ Len(txns) # 0
          /\ RefsOK(txns, Len(revisions)) /\ Len(revisions) \in Nat
      BY <1>0, <1>7, LastTyped DEF UndoCommit, Typed, StoreTyped
    <2> DEFINE t1 == [txns EXCEPT ![Len(txns)].state = "COMMITTED"]
               k == LastTxn.of
               t2 == [t1 EXCEPT ![k].state = "ROLLED_BACK"]
    <2>2. t1 \in Seq(TxnType) /\ Len(t1) = Len(txns) /\ RefsOK(t1, Len(revisions))
      BY <2>1, MarkTxn DEF TxnStates
    <2>3. k \in Nat
      BY <1>0, <2>1, LastTyped DEF TxnType
    <2>4. Settle(t2)
      BY <1>7 DEF UndoCommit
    <2> HIDE DEF t1, k
    <2>5. t2 \in Seq(TxnType) /\ Len(t2) = Len(t1) /\ RefsOK(t2, Len(revisions))
      BY <2>1, <2>2, <2>3, MarkTxn DEF TxnStates
    <2> HIDE DEF t2
    <2>6. t2 # <<>>
      BY <2>1, <2>2, <2>5
    <2> QED
      BY <1>5, <2>1, <2>4, <2>5, <2>6
  <1>8. CASE Restore \/ BootRestore
    <2>1. Quiet /\ ctl' = ctl /\ env' = env /\ UndoBegin(op.target) /\ ops # <<>>
      BY <1>8 DEF Restore, BootRestore, At, Quiet, IInv, Ahead, BootOK
    <2>2. op.target \in Nat
      BY <1>0, <2>1, Latest DEF OpType
    <2>3. StoreTyped'
      BY <1>0, <2>1, <2>2, UndoTyped
    <2> QED
      BY <1>0, <2>1, <2>3, QuietInv DEF Typed, Quiet
  <1> QED
    BY <1>1, <1>2, <1>3, <1>4, <1>6, <1>7, <1>8 DEF Store

-----------------------------------------------------------------------------
(* The core and the start of the controller.                                 *)

Disk == UNCHANGED <<env, revisions, txns, desired, disk>>

LEMMA DownTyped == Down \in CoreType /\ NoDecision \in [action : Actions, rev : Nat]
  BY DEF Down, CoreType, CorePhase, NoDecision, Actions

LEMMA StartTyped ==
  ASSUME Typed, NEW r \in Nat, NEW once \in BOOLEAN, StartCore(r, once)
  PROVE  core' \in CoreType /\ (core'.phase = "ready" => core' = core)
  <1> DEFINE new == [phase |-> "starting", rev |-> r, once |-> once, first |-> FALSE,
                     left |-> IF once THEN 0 ELSE MaxStarts - 1]
  <1>1. (IF once THEN 0 ELSE MaxStarts - 1) \in Nat
    BY BoundsAssumption
  <1>2. new \in CoreType /\ new.phase = "starting"
    BY <1>1 DEF CoreType, CorePhase
  <1>3. core' = core \/ core' = new
    BY DEF StartCore
  <1> HIDE DEF new
  <1> QED
    BY <1>2, <1>3 DEF Typed

LEMMA CoreStepInv ==
  ASSUME IInv, CoreReady \/ CoreFails \/ BackoffEnds
  PROVE  IInv'
  <1>0. Typed /\ core \in CoreType
    BY DEF IInv, Typed
  <1>1. CASE CoreReady
    <2>1. core' = [core EXCEPT !.phase = "ready", !.first = TRUE]
          /\ ready' = ready \cup {core.rev}
          /\ UNCHANGED <<ops, applied, decision, ctl>> /\ Disk
      BY <1>1 DEF CoreReady, dbVars, procVars, Disk
    <2>2. core' \in CoreType /\ core'.rev = core.rev
      BY <1>0, <2>1 DEF CoreType, CorePhase
    <2>3. Typed' /\ CoreOK'
      BY <1>0, <2>1, <2>2 DEF Typed, StoreTyped, CoreOK, Disk
    <2> QED
      BY <2>1, <2>3, SameInv DEF IInv, Ahead, BootOK
  <1>2. CASE CoreFails \/ BackoffEnds
    <2>1. UNCHANGED <<ops, applied, decision, ctl, ready>> /\ Disk
      BY <1>2 DEF CoreFails, BackoffEnds, dbVars, procVars, history, Disk
    <2>2. core' \in CoreType /\ core'.phase # "ready"
      <3>1. CASE CoreFails
        <4>1. PICK p \in {"failed", "backoff"} :
                core' = [core EXCEPT !.first = TRUE, !.phase = p]
          BY <3>1 DEF CoreFails
        <4> QED
          BY <1>0, <4>1 DEF CoreType, CorePhase
      <3>2. CASE BackoffEnds
        <4>1. CASE core.left > 0
          <5>1. core' = [core EXCEPT !.phase = "starting", !.left = core.left - 1]
            BY <1>0, <3>2, <4>1 DEF BackoffEnds, CoreType
          <5>2. core.left - 1 \in Nat
            BY <1>0, <4>1 DEF CoreType
          <5> QED
            BY <1>0, <5>1, <5>2 DEF CoreType, CorePhase
        <4>2. CASE ~(core.left > 0)
          BY <1>0, <3>2, <4>2 DEF BackoffEnds, CoreType, CorePhase
        <4> QED
          BY <4>1, <4>2
      <3> QED
        BY <1>2, <3>1, <3>2
    <2>3. Typed' /\ CoreOK'
      BY <1>0, <2>1, <2>2 DEF Typed, StoreTyped, CoreOK, Disk
    <2> QED
      BY <2>1, <2>3, SameInv DEF IInv, Ahead, BootOK
  <1> QED
    BY <1>1, <1>2

(* The process ends, by request or by a crash.                               *)
LEMMA GoneInv ==
  ASSUME IInv, Leave \/ Crash
  PROVE  IInv'
  <1>0. Typed
    BY DEF IInv
  <1>1. /\ ctl' = "down" /\ disk' = "idle" /\ core' = Down /\ decision' = NoDecision
        /\ UNCHANGED <<env, revisions, txns, desired, applied, ops, ready>>
        /\ ctl \notin {"down"}
    BY DEF Leave, Crash, Gone, dbVars, history
  <1>2. Typed' /\ CoreOK' /\ BootOK'
    BY <1>0, <1>1, DownTyped DEF Typed, StoreTyped, CoreOK, BootOK, Down
  <1>3. ops # <<>> => LatestOK(op, applied, ctl', decision')
    BY <1>1 DEF IInv, Ahead, LatestOK
  <1> QED
    BY <1>1, <1>2, <1>3, SameInv

LEMMA BootStoreInv ==
  ASSUME IInv, BootStore
  PROVE  IInv'
  <1>0. Typed
    BY DEF IInv
  <1>1. /\ ctl = "down" /\ ctl' = "deciding"
        /\ UNCHANGED <<env, applied, ops, disk, decision, core, ready>>
    BY DEF BootStore
  <1>2. StoreTyped'
    <2>1. CASE Import(desired) /\ UNCHANGED txns
      BY <1>0, <1>1, <2>1, ImportStore
    <2>2. ASSUME txns # <<>>, Mark(Verdict),
                 Import(IF Verdict = "COMMITTED" THEN LastTxn.rev ELSE desired)
          PROVE  StoreTyped'
      <3>1. (IF Verdict = "COMMITTED" THEN LastTxn.rev ELSE desired) \in 1..Len(revisions)
        BY <1>0, <2>2, LastTyped DEF Typed, StoreTyped
      <3>2. Verdict \in TxnStates
        BY DEF Verdict, TxnStates
      <3>3. /\ revisions' \in Seq(RevType) /\ desired' \in 1..Len(revisions')
            /\ Len(revisions') \in Nat /\ Len(revisions) <= Len(revisions')
        BY <1>0, <2>2, <3>1, ImportTyped
      <3>4. txns' \in Seq(TxnType) /\ txns' # <<>> /\ RefsOK(txns', Len(revisions))
        BY <1>0, <2>2, <3>2, MarkTyped
      <3>5. Len(revisions) \in Nat
        BY <1>0 DEF Typed, StoreTyped
      <3>6. RefsOK(txns', Len(revisions'))
        BY <3>3, <3>4, <3>5, RefsGrow
      <3> QED
        BY <3>3, <3>4, <3>6 DEF StoreTyped
    <2>3. \/ Import(desired) /\ UNCHANGED txns
          \/ /\ txns # <<>> /\ Mark(Verdict)
             /\ Import(IF Verdict = "COMMITTED" THEN LastTxn.rev ELSE desired)
      BY DEF BootStore
    <2> QED
      BY <2>1, <2>2, <2>3
  <1>3. Typed'
    BY <1>0, <1>1, <1>2 DEF Typed
  <1>4. CoreOK' /\ BootOK'
    BY <1>1 DEF IInv, CoreOK, BootOK
  <1>5. ops # <<>> => LatestOK(op, applied, ctl', decision')
    BY <1>1 DEF IInv, Ahead, LatestOK
  <1> QED
    BY <1>1, <1>3, <1>4, <1>5, SameInv

LEMMA LaunchInv ==
  ASSUME IInv, Launch
  PROVE  IInv'
  <1>0. Typed /\ decision.rev \in Nat
    BY DEF IInv, Typed
  <1>1. /\ ctl = "launching" /\ ctl' = "launched"
        /\ UNCHANGED <<applied, ops, decision, ready>> /\ Disk
        /\ StartCore(decision.rev, decision.action # "normal")
    BY DEF Launch, dbVars, history, Disk
  <1>2. core' \in CoreType /\ (core'.phase = "ready" => core' = core)
    BY <1>0, <1>1, StartTyped
  <1>3. Typed' /\ CoreOK' /\ BootOK'
    BY <1>0, <1>1, <1>2 DEF Typed, StoreTyped, Disk, CoreOK, IInv, BootOK, Ahead
  <1>4. ops # <<>> => LatestOK(op, applied, ctl', decision')
    BY <1>1 DEF IInv, Ahead, LatestOK
  <1> QED
    BY <1>1, <1>3, <1>4, SameInv

-----------------------------------------------------------------------------
(* Steps of the latest operation.                                            *)

(* What EndIsTrue says of one step.                                          *)
EndStep ==
  \A i \in 1..Len(ops) :
    ops'[i].phase \in Terminal /\ ops[i].phase \notin Terminal =>
      /\ ops'[i].phase = "succeeded" /\ ops[i].kind # "core_stop"
           => applied' = ops[i].target
      /\ ops'[i].phase = "rolled_back"
           => applied' = ops[i].prev /\ core.phase = "ready"

LEMMA BecomesEnd ==
  ASSUME Typed, NEW o, Becomes(o),
         o.phase \in Terminal /\ op.phase \notin Terminal =>
           /\ o.phase = "succeeded" /\ op.kind # "core_stop" => applied' = op.target
           /\ o.phase = "rolled_back" => applied' = op.prev /\ core.phase = "ready"
  PROVE  EndStep
  BY DEF Becomes, op, EndStep

LEMMA SameEnd ==
  ASSUME ops' = ops
  PROVE  EndStep
  BY DEF EndStep

LEMMA OpRow ==
  ASSUME IInv, ops # <<>>
  PROVE  /\ RowOK(op, ready) /\ op \in OpType /\ LatestOK(op, applied, ctl, decision)
  BY Latest DEF IInv, RowsOK, Ahead, op

(* The operation moves to phase p, and nothing is applied.                   *)
LEMMA MoveInv ==
  ASSUME IInv, Typed', NEW p \in Phase, NEW o \in OpType,
         Becomes(o), Moved(o, p),
         p \in ChangePhases => op.kind \in Changes,
         op.attempted => p \in Recovery,
         p \in Terminal => p = "failed" \/ op.kind = "core_stop",
         op.phase \in Terminal => p \in Terminal,
         p # "rolled_back",
         UNCHANGED <<applied, ready>>, CoreOK',
         \/ ctl' \in {"up", "recovering", "leaving"}
         \/ ctl' = "launching" /\ decision'.action = "normal"
  PROVE  IInv' /\ EndStep
  <1>1. RowOK(op, ready) /\ LatestOK(op, applied, ctl, decision) /\ op \in OpType
    BY OpRow DEF Becomes
  <1>2. RowOK(o, ready)
    BY <1>1 DEF RowOK, Moved
  <1>3. LatestOK(o, applied, ctl', decision')
    BY <1>1 DEF LatestOK, Moved
  <1>4. BootOK' /\ AppliedWasReady'
    BY DEF BootOK, AppliedWasReady, IInv
  <1>5. IInv'
    BY <1>2, <1>3, <1>4, BecomesInv
  <1>6. EndStep
    BY BecomesEnd DEF Moved, IInv
  <1> QED
    BY <1>5, <1>6

(* The operation ends, and what it says is applied already: its target, or   *)
(* for "rolled_back" the revision before it.                                 *)
LEMMA ApplyInv ==
  ASSUME IInv, Typed', NEW p \in {"succeeded", "rolled_back"},
         NEW o \in OpType, Becomes(o), Moved(o, p),
         applied = IF p = "rolled_back" THEN op.prev ELSE op.target,
         p = "rolled_back" => core.phase = "ready",
         UNCHANGED <<applied, ready, decision>>, CoreOK', ctl' \in {"up", "recovering"}
  PROVE  IInv' /\ EndStep
  <1>1. RowOK(op, ready) /\ op \in OpType
    BY OpRow DEF Becomes
  <1>2. RowOK(o, ready)
    BY <1>1 DEF RowOK, Moved, Recovery, Terminal, ChangePhases
  <1>3. LatestOK(o, applied', ctl', decision)
    BY <1>1 DEF LatestOK, Moved, Terminal, Changes
  <1>4. BootOK' /\ AppliedWasReady'
    BY DEF BootOK, AppliedWasReady, IInv
  <1>5. IInv'
    BY <1>2, <1>3, <1>4, BecomesInv
  <1>6. EndStep
    BY BecomesEnd DEF Moved, IInv
  <1> QED
    BY <1>5, <1>6

(* The previous revision is tried, for the first time.                       *)
LEMMA RecoverInv ==
  ASSUME IInv, Typed', ops # <<>>, ToRecovery, ~op.attempted, op.kind \in Changes,
         UNCHANGED <<applied, ready, decision>>, CoreOK',
         ctl' \in {"up", "recovering", "restoring"}
  PROVE  IInv' /\ EndStep
  <1>1. PICK o \in OpType :
           /\ Becomes(o)
           /\ o.phase = "restoring_config" /\ o.kind = op.kind /\ o.target = op.target
           /\ o.prev = op.prev /\ o.attempted = TRUE /\ o.undos = op.undos + 1
    BY RecoveryStep DEF IInv
  <1>2. RowOK(op, ready) /\ op \in OpType
    BY OpRow
  <1>3. RowOK(o, ready)
    BY <1>1, <1>2 DEF RowOK, Recovery
  <1>4. LatestOK(o, applied', ctl', decision')
    BY <1>1 DEF LatestOK, Changes
  <1>5. BootOK' /\ AppliedWasReady'
    BY <1>1 DEF BootOK, AppliedWasReady, IInv, Becomes
  <1>6. IInv'
    BY <1>1, <1>3, <1>4, <1>5, BecomesInv
  <1>7. EndStep
    BY <1>1, BecomesEnd DEF IInv, Terminal
  <1> QED
    BY <1>6, <1>7

-----------------------------------------------------------------------------
(* The steps of an operation.                                                *)

LEMMA TypedOps ==
  ASSUME Typed, NEW o, Becomes(o), Disk, core' \in CoreType,
         applied' \in Nat, decision' \in [action : Actions, rev : Nat]
  PROVE  Typed'
  BY DEF Typed, StoreTyped, Becomes, Disk

LEMMA OpTyped ==
  ASSUME IInv, ops # <<>>
  PROVE  op.target \in Nat /\ op.prev \in Nat /\ applied \in Nat /\ core \in CoreType
         /\ decision \in [action : Actions, rev : Nat]
  BY OpRow DEF OpType, IInv, Typed

(* An operation moves on without touching what is applied.                   *)
LEMMA PlainInv ==
  ASSUME IInv, ops # <<>>, ctl \in {"up", "recovering"},
         op.phase \notin Recovery \/ op.phase \in {"restoring_config", "starting_previous"},
         NEW p \in Phase \ {"rolled_back"}, SetPhase(p),
         p \in ChangePhases => op.kind \in Changes,
         op.attempted => p \in Recovery,
         p \in Terminal => p = "failed" \/ op.kind = "core_stop",
         UNCHANGED <<applied, ready, decision>>, Disk,
         core' \in CoreType, CoreOK',
         ctl' \in {"up", "recovering", "leaving"}
  PROVE  IInv' /\ EndStep
  <1>1. PICK o \in OpType : Becomes(o) /\ Moved(o, p)
    BY PhaseStep DEF IInv
  <1>2. Typed'
    BY <1>1, OpTyped, TypedOps DEF IInv
  <1>3. op.phase \notin Terminal
    BY DEF Recovery, Terminal
  <1> QED
    BY <1>1, <1>2, <1>3, MoveInv

LEMMA AppliesInv ==
  ASSUME IInv, ops # <<>>, NEW p \in {"succeeded", "rolled_back"}, SetPhase(p),
         applied = IF p = "rolled_back" THEN op.prev ELSE op.target,
         p = "rolled_back" => core.phase = "ready",
         UNCHANGED <<applied, ready, decision, core>>, Disk, ctl' \in {"up", "recovering"}
  PROVE  IInv' /\ EndStep
  <1>1. p \in Phase
    BY DEF Phase, Terminal
  <1>2. PICK o \in OpType : Becomes(o) /\ Moved(o, p)
    BY <1>1, PhaseStep DEF IInv
  <1>3. Typed' /\ CoreOK'
    BY <1>2, OpTyped, TypedOps DEF IInv, CoreOK
  <1> QED
    BY <1>2, <1>3, ApplyInv

LEMMA RecoversInv ==
  ASSUME IInv, ops # <<>>, ToRecovery, ~op.attempted, op.kind \in Changes,
         UNCHANGED <<applied, ready, decision>>, Disk, core' \in CoreType, CoreOK',
         ctl' \in {"up", "recovering", "restoring"}
  PROVE  IInv' /\ EndStep
  <1>1. PICK o \in OpType : Becomes(o)
    BY RecoveryStep DEF IInv
  <1>2. Typed'
    BY <1>1, OpTyped, TypedOps DEF IInv
  <1> QED
    BY <1>2, RecoverInv

(* The operation task decides what to commit, or the core is stopped.        *)
LEMMA StaysInv ==
  ASSUME IInv, UNCHANGED <<ops, applied, ready, decision>>, Disk,
         core' \in CoreType, CoreOK', ctl' \in {"up", "recovering"}
  PROVE  IInv' /\ EndStep
  <1>1. Typed'
    BY DEF IInv, Typed, StoreTyped, Disk
  <1>2. BootOK'
    BY DEF BootOK
  <1>3. ops # <<>> => LatestOK(op, applied, ctl', decision')
    BY DEF IInv, Ahead, LatestOK
  <1> QED
    BY <1>1, <1>2, <1>3, SameInv, SameEnd

LEMMA OperationInv ==
  ASSUME IInv, StopRun \/ StopDone \/ StartRun \/ StartDone \/ Prepare \/ Drain
               \/ Drained \/ DrainFails \/ Stopped \/ Verify
               \/ StartPrevious \/ PreviousDone
  PROVE  IInv' /\ EndStep
  <1>1. /\ ops # <<>> /\ ctl \in {"up", "recovering"} /\ ready' = ready /\ Disk
        /\ decision' = decision
        /\ op.phase \in {"accepted", "stopping", "starting", "prepared", "draining",
                         "restoring_config", "starting_previous"}
    BY DEF StopRun, StopDone, StartRun, StartDone, Prepare, Drain, Drained,
           DrainFails, Stopped, Verify, StartPrevious, PreviousDone, At, dbVars,
           procVars, history, Disk
  <1>2. /\ RowOK(op, ready) /\ LatestOK(op, applied, ctl, decision) /\ op \in OpType
        /\ op.target \in Nat /\ op.prev \in Nat /\ applied \in Nat /\ core \in CoreType
        /\ decision \in [action : Actions, rev : Nat]
    BY <1>1, OpRow, OpTyped
  <1>3. op.phase \notin Recovery \/ op.phase \in {"restoring_config", "starting_previous"}
    BY <1>1 DEF Recovery, Terminal
  <1>4. op.phase \notin {"restoring_config", "starting_previous"} => ~op.attempted
    BY <1>2, <1>3 DEF RowOK
  <1>5. CoreOK /\ AppliedWasReady /\ Typed
    BY DEF IInv
  <1>7. CASE StopRun
    <2>1. SetPhase("stopping") /\ UNCHANGED <<applied, core, ctl>>
          /\ op.phase = "accepted"
      BY <1>7 DEF StopRun, At, dbVars, procVars
    <2> QED
      BY <1>1, <1>2, <1>3, <1>4, <1>5, <2>1, PlainInv
      DEF Phase, ChangePhases, Terminal, CoreOK
  <1>8. CASE StopDone
    <2>1. UNCHANGED <<ops, applied, ctl>> /\ core' = Down
      BY <1>8 DEF StopDone, dbVars
    <2>2. core' \in CoreType /\ CoreOK'
      BY <2>1, DownTyped DEF CoreOK, Down
    <2> QED
      BY <1>1, <2>1, <2>2, StaysInv
  <1>9. CASE StartRun \/ StartPrevious
    <2>1. /\ UNCHANGED <<applied, ctl>>
          /\ \/ SetPhase("starting") /\ StartCore(op.target, TRUE)
                /\ op.phase = "accepted"
             \/ SetPhase("starting_previous") /\ StartCore(op.prev, TRUE)
                /\ op.phase = "restoring_config"
      BY <1>9 DEF StartRun, StartPrevious, At, dbVars, procVars
    <2>2. core' \in CoreType /\ CoreOK'
      BY <1>1, <1>2, <1>5, <2>1, StartTyped DEF CoreOK
    <2>3. op.phase = "restoring_config" => op.kind \in Changes
      BY <1>2 DEF RowOK, ChangePhases
    <2> QED
      BY <1>1, <1>2, <1>3, <1>4, <2>1, <2>2, <2>3, PlainInv
      DEF Phase, ChangePhases, Terminal, Recovery
  <1>10. CASE StartDone
    <2>1. UNCHANGED <<ops, applied, ctl, core>>
      BY <1>10 DEF StartDone, dbVars
    <2> QED
      BY <1>1, <1>2, <1>5, <2>1, StaysInv DEF CoreOK
  <1>11. CASE Prepare
    <2>1. /\ UNCHANGED <<applied, ctl, core>> /\ op.phase = "accepted"
          /\ op.kind \in Changes
          /\ SetPhase("failed") \/ SetPhase("prepared")
      BY <1>11 DEF Prepare, At, dbVars, Changing, Changes
    <2> QED
      BY <1>1, <1>2, <1>3, <1>4, <1>5, <2>1, PlainInv
      DEF Phase, ChangePhases, Terminal, CoreOK
  <1>12. CASE Drain
    <2>1. /\ UNCHANGED <<applied, ctl, core>> /\ op.phase = "prepared"
          /\ SetPhase("draining") \/ SetPhase("stopping")
      BY <1>12 DEF Drain, At, dbVars, procVars
    <2>2. op.kind \in Changes
      BY <1>2, <2>1 DEF RowOK, ChangePhases
    <2> QED
      BY <1>1, <1>2, <1>3, <1>4, <1>5, <2>1, <2>2, PlainInv
      DEF Phase, ChangePhases, Terminal, CoreOK
  <1>13. CASE Drained
    <2>1. /\ UNCHANGED <<applied, ctl>> /\ op.phase = "draining" /\ SetPhase("stopping")
          /\ core' = core \/ core' = [core EXCEPT !.phase = "draining"]
      BY <1>13 DEF Drained, At, dbVars, procVars
    <2>2. core' \in CoreType /\ CoreOK'
      BY <1>1, <1>2, <1>5, <2>1 DEF CoreOK, CoreType, CorePhase
    <2> QED
      BY <1>1, <1>2, <1>3, <1>4, <2>1, <2>2, PlainInv
      DEF Phase, ChangePhases, Terminal
  <1>14. CASE DrainFails
    <2>1. /\ UNCHANGED <<applied, ctl>> /\ op.phase = "draining" /\ ToRecovery
          /\ core' = Down
      BY <1>14 DEF DrainFails, At, dbVars
    <2>2. core' \in CoreType /\ CoreOK' /\ op.kind \in Changes
      BY <1>2, <2>1, DownTyped DEF CoreOK, Down, RowOK, ChangePhases
    <2> QED
      BY <1>1, <1>4, <2>1, <2>2, RecoversInv
  <1>15. CASE Stopped
    <2>1. /\ applied' = applied /\ op.phase = "stopping" /\ op.kind \in Changes
      BY <1>15 DEF Stopped, At, dbVars, Changing, Changes
    <2>2. CASE op.scope = "corona"
      <3>1. /\ SetPhase("awaiting_controller_restart") /\ core' = Down /\ ctl' = "leaving"
        BY <1>15, <2>2 DEF Stopped
      <3>2. core' \in CoreType /\ CoreOK'
        BY <3>1, DownTyped DEF CoreOK, Down
      <3> QED
        BY <1>1, <1>2, <1>3, <1>4, <2>1, <3>1, <3>2, PlainInv
        DEF Phase, ChangePhases, Terminal
    <2>3. CASE op.scope # "corona"
      <3>1. /\ SetPhase("starting") /\ ctl' = ctl
            /\ core' = [phase |-> "starting", rev |-> op.target, left |-> 0,
                        once |-> TRUE, first |-> FALSE]
        BY <1>15, <2>3 DEF Stopped
      <3>2. core' \in CoreType /\ CoreOK'
        BY <1>2, <3>1 DEF CoreOK, CoreType, CorePhase
      <3> QED
        BY <1>1, <1>2, <1>3, <1>4, <2>1, <3>1, <3>2, PlainInv
        DEF Phase, ChangePhases, Terminal
    <2> QED
      BY <2>2, <2>3
  <1>16. CASE Verify
    <2>1. /\ UNCHANGED <<ctl, core, applied>> /\ op.phase = "starting"
          /\ op.kind \in Changes /\ SetPhase("verifying")
      BY <1>16 DEF Verify, At, Changing, Changes, dbVars
    <2> QED
      BY <1>1, <1>2, <1>3, <1>4, <1>5, <2>1, PlainInv
      DEF Phase, ChangePhases, Terminal, CoreOK
  <1>17. CASE PreviousDone
    <2>1. UNCHANGED <<ops, applied, core>> /\ ctl' = "up"
      BY <1>17 DEF PreviousDone, UpAgain, dbVars
    <2> QED
      BY <1>1, <1>2, <1>5, <2>1, StaysInv DEF CoreOK
  <1> QED
    BY <1>7, <1>8, <1>9, <1>10, <1>11, <1>12, <1>13, <1>14, <1>15, <1>16, <1>17

(* A commit of what is due.                                                  *)
LEMMA CommitRuns ==
  ASSUME Due, CommitApplied \/ CommitWanted \/ CommitPhase
  PROVE  ctl \in {"up", "recovering"} /\ UNCHANGED <<ctl, core, ready, decision>> /\ Disk
  <1>1. todo.revs # {} \/ todo.core # "" \/ todo.phase # ""
    <2>1. CommitApplied => todo.revs # {}
      BY DEF CommitApplied
    <2>2. CommitWanted \/ CommitPhase => todo.core # "" \/ todo.phase # ""
      BY DEF CommitWanted, CommitPhase
    <2> QED
      BY <2>1, <2>2
  <1>2. todo # Nothing
    <2>1. Nothing.revs = {} /\ Nothing.core = "" /\ Nothing.phase = ""
      BY DEF Nothing
    <2> QED
      BY <1>1, <2>1
  <1>3. ctl \in {"up", "recovering"}
    BY <1>2 DEF Due
  <1>4. CASE CommitApplied
    BY <1>3, <1>4 DEF CommitApplied, history, Disk
  <1>5. CASE CommitWanted
    BY <1>3, <1>5 DEF CommitWanted, history, Disk
  <1>6. CASE CommitPhase
    BY <1>3, <1>6 DEF CommitPhase, dbVars, history, Disk
  <1> QED
    BY <1>4, <1>5, <1>6

LEMMA CommitInv ==
  ASSUME IInv, Due, CommitApplied \/ CommitWanted \/ CommitPhase
  PROVE  IInv' /\ EndStep
  <1>1. /\ UNCHANGED <<ctl, core, ready, decision>> /\ Disk /\ Typed
        /\ CoreOK' /\ AppliedWasReady /\ core \in CoreType
    BY CommitRuns DEF IInv, CoreOK, Typed
  <1>2. ctl \in {"up", "recovering"}
    BY CommitRuns
  <1>3. CASE CommitApplied
    <2>1. PICK r \in todo.revs : applied' = r
      BY <1>3 DEF CommitApplied, SetApplied
    <2>2. ops' = ops
      BY <1>3 DEF CommitApplied
    <2>3. ops # <<>> /\ DueOK(op, todo, applied, core, ready) /\ r \in Nat
      BY <2>1 DEF Due, TodoType
    <2>4. /\ r = 1 \/ r \in ready
          /\ op.kind = "core_start" => r = op.target
      BY <2>1, <2>3 DEF DueOK
    <2>5. Typed' /\ BootOK' /\ AppliedWasReady' /\ RowsOK'
      BY <1>1, <1>2, <2>1, <2>2, <2>3, <2>4
      DEF IInv, Typed, StoreTyped, Disk, BootOK, AppliedWasReady, RowsOK
    <2>6. LatestOK(op, applied', ctl', decision')
      BY <1>1, <1>2, <2>1, <2>4 DEF LatestOK
    <2> QED
      BY <1>1, <2>2, <2>5, <2>6, SameEnd DEF IInv, Ahead, op
  <1>4. CASE CommitWanted
    <2>1. UNCHANGED <<ops, applied>>
      BY <1>4 DEF CommitWanted
    <2> QED
      BY <1>1, <1>2, <2>1, StaysInv
  <1>5. CASE CommitPhase
    <2>1. /\ todo.revs = {} /\ todo.phase # "" /\ applied' = applied
          /\ IF todo.phase = "restoring_config" THEN ToRecovery ELSE SetPhase(todo.phase)
      BY <1>5 DEF CommitPhase, dbVars
    <2>2. ops # <<>> /\ DueOK(op, todo, applied, core, ready)
          /\ todo.phase \in Terminal \cup {"", "restoring_config"}
      BY <2>1 DEF Due, TodoType
    <2>3. CASE todo.phase = "restoring_config"
      BY <1>1, <1>2, <2>1, <2>2, <2>3, RecoversInv DEF DueOK
    <2>4. CASE todo.phase = "failed" \/ (todo.phase = "succeeded" /\ op.kind = "core_stop")
      <3>1. op.phase \notin Recovery \/ op.phase \in {"restoring_config", "starting_previous"}
        BY <2>2 DEF DueOK, Recovery
      <3>2. todo.phase \in Phase \ {"rolled_back"} /\ todo.phase \notin ChangePhases
            /\ todo.phase \in Recovery
        BY <2>4 DEF Phase, Terminal, ChangePhases, Recovery
      <3>3. SetPhase(todo.phase)
        BY <2>1, <2>4
      <3> QED
        BY <1>1, <1>2, <2>1, <2>2, <2>4, <3>1, <3>2, <3>3, PlainInv
    <2>5. CASE todo.phase = "succeeded" /\ op.kind # "core_stop"
      BY <1>1, <1>2, <2>1, <2>2, <2>5, AppliesInv DEF DueOK
    <2>6. CASE todo.phase = "rolled_back"
      BY <1>1, <1>2, <2>1, <2>2, <2>6, AppliesInv DEF DueOK
    <2> QED
      BY <2>1, <2>2, <2>3, <2>4, <2>5, <2>6 DEF Terminal
  <1> QED
    BY <1>3, <1>4, <1>5

-----------------------------------------------------------------------------
(* The start of the controller decides about the operation it finds.         *)

LEMMA FreshTyped ==
  ASSUME NEW r \in Nat
  PROVE  Fresh(r) \in [action : Actions, rev : Nat] /\ Fresh(r).action = "normal"
  BY DEF Fresh, Actions

LEMMA DecideInv ==
  ASSUME IInv, NEW same \in BOOLEAN, Decide(same)
  PROVE  IInv' /\ EndStep
  <1>1. /\ ctl = "deciding" /\ UNCHANGED <<applied, core, ready>> /\ Disk
        /\ Typed /\ CoreOK' /\ applied \in Nat /\ core' \in CoreType
    BY DEF Decide, IInv, CoreOK, Typed, Disk, dbVars
  <1>2. /\ Active # {} <=> (ops # <<>> /\ op.phase \notin Terminal)
    <2>1. CASE ops # <<>> /\ op.phase \notin Terminal
      BY <2>1 DEF Active, op
    <2>2. CASE ~(ops # <<>> /\ op.phase \notin Terminal)
      BY <2>2 DEF Active, op
    <2> QED
      BY <2>1, <2>2
  <1>3. ASSUME Active = {}, ops' = ops, decision' = Fresh(applied),
               ctl' \in {"launching", "up"}
        PROVE  IInv' /\ EndStep
    <2>1. decision' \in [action : Actions, rev : Nat] /\ decision'.action = "normal"
      BY <1>1, <1>3, FreshTyped
    <2>2. Typed' /\ BootOK'
      BY <1>1, <1>3, <2>1 DEF Typed, StoreTyped, Disk, BootOK
    <2>3. ops # <<>> => op.phase \in Terminal
      BY <1>2, <1>3
    <2>4. ops # <<>> => LatestOK(op, applied, ctl', decision')
      BY <1>3, <2>1, <2>3 DEF LatestOK, Terminal
    <2> QED
      BY <1>1, <1>3, <2>2, <2>4, SameInv, SameEnd
  <1>4. ASSUME Active # {}, NEW p \in {"failed", "succeeded"}, SetPhase(p),
               p = "succeeded" => op.kind = "core_stop",
               \/ decision' = NoDecision /\ ctl' = "up"
               \/ decision' = Fresh(applied) /\ ctl' \in {"launching", "up"}
        PROVE  IInv' /\ EndStep
    <2>1. p \in Phase /\ p \in Terminal /\ p \notin ChangePhases
          /\ p \in Recovery
      BY DEF Phase, Terminal, ChangePhases, Recovery
    <2>2. PICK o \in OpType : Becomes(o) /\ Moved(o, p)
      BY <1>1, <1>2, <1>4, <2>1, PhaseStep
    <2>3. decision' \in [action : Actions, rev : Nat]
      BY <1>1, <1>4, FreshTyped, DownTyped
    <2>4. Typed'
      BY <1>1, <2>2, <2>3, TypedOps
    <2>5. \/ ctl' \in {"up", "recovering", "leaving"}
          \/ ctl' = "launching" /\ decision'.action = "normal"
      BY <1>1, <1>4, FreshTyped
    <2> QED
      BY <1>1, <1>4, <2>1, <2>2, <2>4, <2>5, MoveInv
  <1>5. ASSUME Active # {}, ~op.attempted,
               \/ op.kind = "core_start" /\ decision' = [action |-> "core_start", rev |-> applied]
               \/ op.kind = "restart"
                  /\ decision' = [action |-> "controller_target", rev |-> op.target],
               ops' = [ops EXCEPT ![Len(ops)].phase = "starting",
                                  ![Len(ops)].started = TRUE],
               ctl' = "launching"
        PROVE  IInv' /\ EndStep
    <2>1. PICK o \in OpType : Becomes(o) /\ Moved(o, "starting")
      BY <1>1, <1>2, <1>5, StartedStep
    <2>2. /\ RowOK(op, ready) /\ LatestOK(op, applied, ctl, decision)
          /\ op.target \in Nat
      BY <1>2, <1>5, OpRow, OpTyped
    <2>3. decision' \in [action : Actions, rev : Nat]
          /\ decision'.action \in {"core_start", "controller_target"}
      BY <1>1, <1>5, <2>2 DEF Actions
    <2>4. Typed' /\ BootOK' /\ AppliedWasReady'
      BY <1>1, <2>1, <2>3, TypedOps DEF BootOK, Becomes, AppliedWasReady, IInv
    <2>5. RowOK(o, ready)
      BY <1>5, <2>1, <2>2 DEF RowOK, Moved, ChangePhases
    <2>6. op.kind = "core_start" => applied = op.target
      BY <1>2, <1>5, <2>2 DEF LatestOK
    <2>7. LatestOK(o, applied, ctl', decision')
      BY <1>5, <2>1, <2>6 DEF LatestOK, Moved, Terminal
    <2>8. IInv'
      BY <1>1, <2>1, <2>4, <2>5, <2>7, BecomesInv
    <2>9. EndStep
      BY <1>1, <2>1, BecomesEnd DEF Moved, Terminal
    <2> QED
      BY <2>8, <2>9
  <1>6. CASE Active # {} /\ NeedsPrevious(same) /\ ToRecovery /\ ctl' = "restoring"
             /\ decision' = decision
    <2>1. ~op.attempted /\ op.kind \in Changes
      BY <1>6 DEF NeedsPrevious, Changes
    <2> QED
      BY <1>1, <1>2, <1>6, <2>1, RecoversInv
  <1>7. Active # {} /\ op.kind = "core_start" => ~op.attempted
    BY <1>2, OpRow DEF RowOK, Changes
  <1>8. \/ /\ Active = {} /\ ops' = ops /\ decision' = Fresh(applied)
           /\ ctl' \in {"launching", "up"}
        \/ /\ Active # {} /\ op.kind = "core_stop" /\ SetPhase("succeeded")
           /\ decision' = NoDecision /\ ctl' = "up"
        \/ /\ Active # {} /\ SetPhase("failed")
           /\ \/ decision' = NoDecision /\ ctl' = "up"
              \/ decision' = Fresh(applied) /\ ctl' \in {"launching", "up"}
        \/ /\ Active # {}
           /\ \/ op.kind = "core_start" /\ decision' = [action |-> "core_start", rev |-> applied]
              \/ /\ op.kind = "restart" /\ ~op.attempted
                 /\ decision' = [action |-> "controller_target", rev |-> op.target]
           /\ ops' = [ops EXCEPT ![Len(ops)].phase = "starting",
                                 ![Len(ops)].started = TRUE]
           /\ ctl' = "launching"
        \/ /\ Active # {} /\ NeedsPrevious(same) /\ ToRecovery /\ ctl' = "restoring"
           /\ decision' = decision
    BY DEF Decide
  <1> QED
    BY <1>3, <1>4, <1>5, <1>6, <1>7, <1>8

LEMMA BootPreviousInv ==
  ASSUME IInv, BootPrevious
  PROVE  IInv' /\ EndStep
  <1>1. /\ ctl = "restoring" /\ ctl' = "launching" /\ ops # <<>>
        /\ UNCHANGED <<applied, core, ready>> /\ Disk
        /\ SetPhase("starting_previous")
        /\ decision' = [action |-> "core_previous", rev |-> op.prev]
    BY DEF BootPrevious, dbVars, history, Disk, IInv, Ahead, BootOK
  <1>2. PICK o \in OpType : Becomes(o) /\ Moved(o, "starting_previous")
    BY <1>1, PhaseStep DEF IInv, Phase
  <1>3. /\ RowOK(op, ready) /\ LatestOK(op, applied, ctl, decision)
        /\ op.prev \in Nat /\ applied \in Nat /\ core \in CoreType
    BY <1>1, OpRow, OpTyped
  <1>4. op.phase = "restoring_config" /\ op.kind \in Changes
    BY <1>1, <1>3 DEF LatestOK, RowOK, ChangePhases
  <1>5. decision' \in [action : Actions, rev : Nat]
    BY <1>1, <1>3 DEF Actions
  <1>6. Typed' /\ BootOK' /\ AppliedWasReady' /\ CoreOK'
    BY <1>1, <1>2, <1>3, <1>5, TypedOps
    DEF IInv, BootOK, AppliedWasReady, CoreOK, Becomes
  <1>7. RowOK(o, ready)
    BY <1>2, <1>3, <1>4 DEF RowOK, Moved, Recovery
  <1>8. LatestOK(o, applied, ctl', decision')
    BY <1>1, <1>2, <1>4 DEF LatestOK, Moved, Changes, Terminal
  <1>9. IInv'
    BY <1>1, <1>2, <1>6, <1>7, <1>8, BecomesInv
  <1>10. EndStep
    BY <1>1, <1>2, BecomesEnd DEF Moved, Terminal, IInv
  <1> QED
    BY <1>9, <1>10

LEMMA FinalizeInv ==
  ASSUME IInv, Finalize
  PROVE  IInv' /\ EndStep
  <1>1. /\ ctl = "launched" /\ UNCHANGED <<core, ready, decision, applied>> /\ Disk
        /\ CoreOK' /\ Typed /\ core \in CoreType
    BY DEF Finalize, history, Disk, IInv, CoreOK, Typed, dbVars
  <1>2. CASE decision.action = "controller_target" /\ ~ReadyFor(decision.rev)
    <2>1. ToRecovery /\ ctl' = "recovering"
      BY <1>2 DEF Finalize
    <2>2. ops # <<>>
      BY <1>1, <1>2 DEF IInv, Ahead, BootOK
    <2>3. ~op.attempted /\ op.kind \in Changes
      BY <1>1, <1>2, <2>2, OpRow DEF LatestOK, Changes
    <2> QED
      BY <1>1, <2>1, <2>2, <2>3, RecoversInv
  <1>3. CASE ~(decision.action = "controller_target" /\ ~ReadyFor(decision.rev))
    <2>1. ops' = ops /\ ctl' = "up"
      BY <1>3 DEF Finalize
    <2> QED
      BY <1>1, <2>1, StaysInv
  <1> QED
    BY <1>2, <1>3

(* An operation is accepted when none is under way.                          *)
LEMMA AcceptInv ==
  ASSUME IInv, NEW kind \in Kinds, Accept(kind)
  PROVE  IInv' /\ EndStep
  <1> DEFINE t == IF kind \in {"apply", "restart"} THEN desired ELSE applied
             s == IF kind \in {"apply", "restart"} THEN revisions[t].scope
                  ELSE "nucleus"
             o == [kind |-> kind, phase |-> "accepted", target |-> t,
                   prev |-> applied, scope |-> s,
                   attempted |-> FALSE, started |-> FALSE, undos |-> 0]
  <1>1. /\ ctl = "up" /\ ctl' = ctl /\ Disk /\ UNCHANGED <<applied, core, ready, decision>>
        /\ ops' = Append(ops, o)
    BY DEF Accept, dbVars, history, Disk
  <1>2. Typed /\ ops \in Seq(OpType) /\ applied \in Nat /\ desired \in Nat
    BY DEF IInv, Typed, StoreTyped
  <1>3. o.kind = kind /\ o.phase = "accepted" /\ o.target = t /\ o.prev = applied
        /\ o.attempted = FALSE /\ o.undos = 0
    OBVIOUS
  <1>4. o \in OpType
    <2>1. kind \in {"apply", "restart", "core_start", "core_stop"} /\ t \in Nat
      BY <1>2, KindAssumption
    <2>2. s \in {"nucleus", "corona"}
      <3>1. desired \in 1..Len(revisions) /\ revisions \in Seq(RevType)
        BY <1>2 DEF Typed, StoreTyped
      <3>2. revisions[desired] \in RevType
        BY <3>1
      <3> QED
        BY <3>2 DEF RevType
    <2> HIDE DEF s, t
    <2> QED
      BY <1>2, <2>1, <2>2 DEF OpType, Phase
  <1>5. kind = "core_start" => t = applied
    OBVIOUS
  <1> HIDE DEF o, t, s
  <1>6. /\ ops' \in Seq(OpType) /\ Len(ops') = Len(ops) + 1 /\ ops' # <<>>
        /\ ops'[Len(ops) + 1] = o
        /\ \A i \in 1..Len(ops) : ops'[i] = ops[i]
        /\ Len(ops) \in Nat
    BY <1>1, <1>2, <1>4
  <1>7. op' = o
    BY <1>6 DEF op
  <1>8. Typed'
    BY <1>1, <1>2, <1>6 DEF Typed, StoreTyped, Disk
  <1>9. RowOK(o, ready)
    BY <1>3 DEF RowOK, ChangePhases, IInv, AppliedWasReady
  <1>10. RowsOK'
    BY <1>1, <1>6, <1>9 DEF RowsOK, IInv
  <1>11. LatestOK(o, applied, ctl, decision)
    BY <1>1, <1>3, <1>5 DEF LatestOK
  <1>12. CoreOK' /\ AppliedWasReady' /\ BootOK'
    BY <1>1 DEF IInv, CoreOK, AppliedWasReady, BootOK
  <1>13. Ahead'
    BY <1>1, <1>7, <1>11, <1>12 DEF Ahead
  <1>14. EndStep
    BY <1>6 DEF EndStep
  <1> QED
    BY <1>8, <1>10, <1>12, <1>13, <1>14 DEF IInv

-----------------------------------------------------------------------------
(* What is still to be committed.                                            *)

LEMMA DueNothing ==
  ASSUME todo' = Nothing
  PROVE  Due'
  <1>1. Nothing \in TodoType /\ Nothing.revs = {} /\ Nothing.phase = ""
    BY DEF Nothing, TodoType
  <1> QED
    BY <1>1 DEF Due

(* Something is left for the open operation, which is o now.                 *)
LEMMA DueNew ==
  ASSUME todo' \in TodoType, ctl' \in {"up", "recovering"}, ops' # <<>>,
         NEW o, op' = o, DueOK(o, todo', applied', core', ready')
  PROVE  Due'
  BY DEF Due

LEMMA DueKept ==
  ASSUME Due,
         \/ \E c \in Content : SaveBegin(c) \/ Edit(c)
         \/ Store \/ Restore \/ BootRestore \/ CoreReady \/ CoreFails \/ BackoffEnds
         \/ Leave \/ Crash \/ BootStore \/ Launch \/ BootPrevious \/ UNCHANGED vars
  PROVE  Due'
  <1>1. CASE \/ \E c \in Content : Edit(c)
             \/ Store \/ UNCHANGED vars
    <2>1. UNCHANGED <<todo, ctl, ops, applied, core, ready>>
      BY <1>1 DEF Edit, Store, SaveCheck, Replace, SaveCommit, UndoCommit, Settle,
                  vars, procVars, dbVars, history
    <2> QED
      BY <2>1 DEF Due, op
  <1>2. CASE \/ \E c \in Content : SaveBegin(c)
             \/ Restore \/ BootRestore \/ CoreReady \/ CoreFails \/ BackoffEnds
    <2>1. todo' = todo /\ todo = Nothing
      BY <1>2 DEF SaveBegin, Restore, BootRestore, CoreReady, CoreFails, BackoffEnds,
                  At, Free, procVars
    <2> QED
      BY <2>1, DueNothing
  <1>3. CASE Leave \/ Crash
    BY <1>3, DueNothing DEF Leave, Crash, Gone
  <1>4. CASE BootStore \/ Launch \/ BootPrevious
    <2>1. todo' = todo /\ ctl \in {"down", "launching", "restoring"}
      BY <1>4 DEF BootStore, Launch, BootPrevious
    <2> QED
      BY <2>1, DueNothing DEF Due
  <1> QED
    BY <1>1, <1>2, <1>3, <1>4

LEMMA AcceptDue ==
  ASSUME NEW kind \in Kinds, Accept(kind)
  PROVE  Due'
  <1>1. PICK w \in {"running", "stopped", ""} : todo' = [revs |-> {}, core |-> w, phase |-> ""]
    BY DEF Accept, Commits
  <1>2. todo' \in TodoType /\ todo'.revs = {} /\ todo'.phase = "" /\ ctl' = "up"
    BY <1>1 DEF TodoType, Accept
  <1> QED
    BY <1>2 DEF Due

LEMMA DecideDue ==
  ASSUME Due, NEW same \in BOOLEAN, Decide(same)
  PROVE  Due'
  <1>1. CASE todo' = todo
    BY <1>1, DueNothing DEF Decide, Due
  <1>2. CASE Commits({}, "stopped", "") /\ ctl' = "up"
    <2>1. todo' \in TodoType /\ todo'.revs = {} /\ todo'.phase = ""
      BY <1>2 DEF TodoType, Commits
    <2> QED
      BY <1>2, <2>1 DEF Due
  <1> QED
    BY <1>1, <1>2 DEF Decide

(* The end of the operation is due: what it says is true of r, a revision    *)
(* the core is ready with.                                                   *)
LEMMA EndDue ==
  ASSUME IInv, ops # <<>>, op.phase \notin Terminal, ctl' \in {"up", "recovering"},
         UNCHANGED <<core, ready>>, NEW o \in OpType, op' = o, ops' # <<>>,
         o.phase \notin Terminal, o.kind = op.kind, o.target = op.target, o.prev = op.prev,
         NEW r \in {op.target, op.prev}, r = 1 \/ r \in ready, NEW w \in {"running", ""},
         \/ r = op.target /\ Commits({r}, w, "succeeded")
         \/ /\ r = op.prev /\ core.phase = "ready" /\ op.kind # "core_start"
            /\ Commits({r}, w, "rolled_back")
  PROVE  Due'
  <1>1. r \in Nat
    BY OpTyped
  <1>2. PICK p \in {"succeeded", "rolled_back"} :
          /\ todo' = [revs |-> {r}, core |-> w, phase |-> p]
          /\ p = "succeeded" => r = op.target
          /\ p = "rolled_back" => /\ r = op.prev /\ core.phase = "ready"
                                  /\ op.kind # "core_start"
    BY DEF Commits
  <1>3. todo' \in TodoType /\ todo'.revs = {r} /\ todo'.phase = p
    BY <1>1, <1>2 DEF TodoType, Terminal
  <1>4. DueOK(o, todo', applied', core', ready')
    BY <1>2, <1>3 DEF DueOK
  <1> QED
    BY <1>3, <1>4, DueNew

LEMMA FailDue ==
  ASSUME ops # <<>>, op.phase \notin Terminal, ctl' \in {"up", "recovering"},
         ops' # <<>>, op'.phase \notin Terminal, NEW w \in {"stopped", ""},
         \/ Commits({}, w, "failed")
         \/ op'.kind = "core_stop" /\ Commits({}, w, "succeeded")
         \/ op'.kind \in Changes /\ ~op'.attempted /\ Commits({}, w, "restoring_config")
  PROVE  Due'
  <1>1. PICK p \in {"failed", "succeeded", "restoring_config"} :
          /\ todo' = [revs |-> {}, core |-> w, phase |-> p]
          /\ p = "succeeded" => op'.kind = "core_stop"
          /\ p = "restoring_config" => op'.kind \in Changes /\ ~op'.attempted
    BY DEF Commits
  <1>2. todo' \in TodoType /\ todo'.revs = {} /\ todo'.phase = p
    BY <1>1 DEF TodoType, Terminal
  <1> DEFINE o == op'
  <1>3. DueOK(o, todo', applied', core', ready')
    BY <1>1, <1>2 DEF DueOK
  <1> QED
    BY <1>2, <1>3, DueNew

LEMMA OperationDue ==
  ASSUME IInv, Due, StopRun \/ StopDone \/ StartRun \/ StartDone \/ Prepare \/ Drain
               \/ Drained \/ DrainFails \/ Stopped \/ Verify
               \/ StartPrevious \/ PreviousDone
  PROVE  Due'
  <1>1. /\ ops # <<>> /\ ctl \in {"up", "recovering"} /\ todo = Nothing /\ ready' = ready
        /\ op.phase \in {"accepted", "stopping", "starting", "prepared", "draining",
                         "restoring_config", "starting_previous"}
    BY DEF StopRun, StopDone, StartRun, StartDone, Prepare, Drain, Drained,
           DrainFails, Stopped, Verify, StartPrevious, PreviousDone, At, Free, history
  <1>2. op.phase \notin Terminal /\ RowOK(op, ready) /\ op \in OpType /\ Typed
    BY <1>1, OpRow DEF Terminal, IInv
  <1>3. \A r \in Nat : ReadyFor(r) => r \in ready /\ core.phase = "ready"
    BY DEF ReadyFor, CoreOK, IInv
  <1>4. op.target \in Nat /\ op.prev \in Nat
    BY <1>1, OpTyped
  <1>5. CASE StopRun \/ StartRun \/ Drain \/ Drained \/ DrainFails \/ Stopped \/ StartPrevious
    <2>1. todo' = todo
      BY <1>5 DEF StopRun, StartRun, Drain, Drained, DrainFails, Stopped, StartPrevious,
                  procVars
    <2> QED
      BY <1>1, <2>1, DueNothing
  <1>6. CASE StopDone
    <2>1. UNCHANGED <<ops, ctl>> /\ op.kind = "core_stop" /\ Commits({}, "stopped", "succeeded")
      BY <1>6 DEF StopDone
    <2>2. op' = op
      BY <2>1 DEF op
    <2> QED
      BY <1>1, <1>2, <2>1, <2>2, FailDue
  <1>7. CASE StartDone
    <2>1. UNCHANGED <<ops, ctl, core>>
      BY <1>7 DEF StartDone
    <2>2. op' = op
      BY <2>1 DEF op
    <2>3. CASE ReadyFor(op.target)
      <3>1. Commits({op.target}, "running", "succeeded")
        BY <1>7, <2>3 DEF StartDone
      <3> QED
        BY <1>1, <1>2, <1>3, <1>4, <2>1, <2>2, <2>3, <3>1, EndDue
    <2>4. CASE ~ReadyFor(op.target)
      <3>1. Commits({}, "", "failed")
        BY <1>7, <2>4 DEF StartDone
      <3> QED
        BY <1>1, <1>2, <2>1, <2>2, <3>1, FailDue
    <2> QED
      BY <2>3, <2>4
  <1>8. CASE Prepare
    <2>1. CASE todo' = todo
      BY <1>1, <2>1, DueNothing
    <2>2. CASE /\ SetPhase("prepared") /\ op.target = op.prev
               /\ Commits({op.target}, "", "succeeded")
      <3>1. PICK o \in OpType : Becomes(o) /\ Moved(o, "prepared")
        BY <1>1, <1>2, <2>2, PhaseStep DEF Phase
      <3>2. op.target = 1 \/ op.target \in ready
        BY <1>2, <2>2 DEF RowOK
      <3>3. ctl' = ctl /\ core' = core
        BY <1>8 DEF Prepare
      <3>4. /\ op' = o /\ ops' # <<>> /\ o.phase \notin Terminal /\ o.kind = op.kind
            /\ o.target = op.target /\ o.prev = op.prev
        BY <3>1 DEF Becomes, Moved, Terminal
      <3> QED
        BY <1>1, <1>2, <2>2, <3>2, <3>3, <3>4, EndDue
    <2> QED
      BY <1>8, <2>1, <2>2 DEF Prepare
  <1>9. CASE Verify
    <2>1. SetPhase("verifying") /\ op.kind \in Changes /\ op.phase = "starting"
          /\ ctl' = ctl /\ core' = core
      BY <1>9 DEF Verify, At, Changing, Changes
    <2>2. PICK o \in OpType : Becomes(o) /\ Moved(o, "verifying")
      BY <1>1, <1>2, <2>1, PhaseStep DEF Phase
    <2>3. /\ op' = o /\ ops' # <<>> /\ o.phase \notin Terminal /\ o.kind = op.kind
          /\ o.target = op.target /\ o.prev = op.prev /\ o.attempted = op.attempted
      BY <2>2 DEF Becomes, Moved, Terminal
    <2>4. ~op.attempted
      BY <1>2, <2>1 DEF RowOK, Recovery, Terminal
    <2>5. CASE ReadyFor(op.target)
      <3>1. Commits({op.target}, "running", "succeeded")
        BY <1>9, <2>5 DEF Verify
      <3> QED
        BY <1>1, <1>2, <1>3, <1>4, <2>1, <2>3, <2>5, <3>1, EndDue
    <2>6. CASE ~ReadyFor(op.target)
      <3>1. Commits({}, "", "restoring_config")
        BY <1>9, <2>6 DEF Verify
      <3> QED
        BY <1>1, <1>2, <2>1, <2>3, <2>4, <3>1, FailDue
    <2> QED
      BY <2>5, <2>6
  <1>10. CASE PreviousDone
    <2>1. UNCHANGED <<ops, core>> /\ ctl' = "up" /\ op.phase = "starting_previous"
      BY <1>10 DEF PreviousDone, UpAgain, At
    <2>2. op' = op /\ op.kind # "core_start"
      BY <1>2, <2>1 DEF op, RowOK, ChangePhases, Changes
    <2>3. CASE ReadyFor(op.prev)
      <3>1. Commits({op.prev}, "running", "rolled_back")
        BY <1>10, <2>3 DEF PreviousDone
      <3> QED
        BY <1>1, <1>2, <1>3, <1>4, <2>1, <2>2, <2>3, <3>1, EndDue
    <2>4. CASE ~ReadyFor(op.prev)
      <3>1. Commits({}, "stopped", "failed")
        BY <1>10, <2>4 DEF PreviousDone
      <3> QED
        BY <1>1, <1>2, <2>1, <2>2, <3>1, FailDue
    <2> QED
      BY <2>3, <2>4
  <1> QED
    BY <1>5, <1>6, <1>7, <1>8, <1>9, <1>10

LEMMA FinalizeDue ==
  ASSUME IInv, Due, Finalize
  PROVE  Due'
  <1>1. ctl = "launched" /\ todo = Nothing /\ UNCHANGED <<core, ready>>
    BY DEF Finalize, Due, history
  <1>2. CASE todo' = todo
    BY <1>1, <1>2, DueNothing
  <1>3. CASE todo' # todo
    <2>1. /\ decision.action # "normal" /\ ops' = ops /\ ctl' = "up"
          /\ \/ Commits({}, "stopped", "failed")
             \/ /\ decision.action = "core_previous" /\ ReadyFor(decision.rev)
                /\ Commits({decision.rev}, "", "rolled_back")
             \/ /\ decision.action \in {"controller_target", "core_start"}
                /\ ReadyFor(decision.rev)
                /\ Commits({decision.rev}, "running", "succeeded")
      <3>1. ~(decision.action = "controller_target" /\ ~ReadyFor(decision.rev))
        BY <1>3 DEF Finalize
      <3>2. ops' = ops /\ ctl' = "up"
        BY <3>1 DEF Finalize
      <3>3. decision.action # "normal"
        BY <1>3, <3>1 DEF Finalize
      <3>4. decision.action \in {"core_start", "core_previous", "controller_target"}
        BY <1>1, <3>3 DEF IInv, Ahead, BootOK, Typed, Actions
      <3>5. CASE ~ReadyFor(decision.rev)
        BY <3>1, <3>2, <3>3, <3>4, <3>5 DEF Finalize
      <3>6. CASE ReadyFor(decision.rev) /\ decision.action = "core_previous"
        BY <3>1, <3>2, <3>3, <3>6 DEF Finalize
      <3>7. CASE ReadyFor(decision.rev) /\ decision.action \in {"controller_target", "core_start"}
        BY <3>1, <3>2, <3>3, <3>7 DEF Finalize
      <3> QED
        BY <3>4, <3>5, <3>6, <3>7
    <2>2. ops # <<>>
      BY <1>1, <2>1 DEF IInv, Ahead, BootOK
    <2>3. /\ op \in OpType /\ op.phase \notin Terminal /\ op' = op /\ ops' # <<>>
          /\ decision.action = "core_previous" => decision.rev = op.prev
          /\ decision.action \in {"controller_target", "core_start"}
               => decision.rev = op.target
          /\ RowOK(op, ready)
      BY <1>1, <2>1, <2>2, OpRow DEF LatestOK, op
    <2>4. ReadyFor(decision.rev) => decision.rev \in ready /\ core.phase = "ready"
      BY DEF ReadyFor, CoreOK, IInv
    <2>5. decision.action = "core_previous" => op.kind # "core_start"
      BY <1>1, <2>1, <2>2, OpRow DEF LatestOK
    <2>6. CASE Commits({}, "stopped", "failed")
      BY <2>1, <2>2, <2>3, <2>6, FailDue
    <2>7. CASE /\ decision.action = "core_previous" /\ ReadyFor(decision.rev)
               /\ Commits({decision.rev}, "", "rolled_back")
      BY <1>1, <2>1, <2>2, <2>3, <2>4, <2>5, <2>7, EndDue
    <2>8. CASE /\ decision.action \in {"controller_target", "core_start"}
               /\ ReadyFor(decision.rev)
               /\ Commits({decision.rev}, "running", "succeeded")
      BY <1>1, <2>1, <2>2, <2>3, <2>4, <2>8, EndDue
    <2> QED
      BY <2>1, <2>6, <2>7, <2>8
  <1> QED
    BY <1>2, <1>3

LEMMA CommitDue ==
  ASSUME IInv, Due, CommitApplied \/ CommitWanted \/ CommitPhase
  PROVE  Due'
  <1>1. UNCHANGED <<ctl, core, ready>> /\ ctl \in {"up", "recovering"}
    BY CommitRuns
  <1>2. CASE CommitPhase
    BY <1>2, DueNothing DEF CommitPhase
  <1>3. CASE CommitWanted
    <2>1. UNCHANGED <<ops, applied>> /\ todo' = [todo EXCEPT !.core = ""]
      BY <1>3 DEF CommitWanted, dbVars
    <2>2. todo' \in TodoType /\ todo'.revs = todo.revs /\ todo'.phase = todo.phase
      BY <2>1 DEF Due, TodoType
    <2> QED
      BY <1>1, <2>1, <2>2 DEF Due, DueOK, op
  <1>4. CASE CommitApplied
    <2>1. PICK r \in todo.revs : applied' = r
      BY <1>4 DEF CommitApplied, SetApplied
    <2>2. ops' = ops /\ todo' = [todo EXCEPT !.revs = {}]
      BY <1>4 DEF CommitApplied
    <2>3. todo' \in TodoType /\ todo'.revs = {} /\ todo'.phase = todo.phase
      BY <2>2 DEF Due, TodoType
    <2>4. ops # <<>> /\ DueOK(op, todo, applied, core, ready)
      BY <2>1 DEF Due
    <2>5. DueOK(op, todo', applied', core', ready')
      BY <1>1, <2>1, <2>3, <2>4 DEF DueOK
    <2> QED
      BY <1>1, <2>2, <2>3, <2>4, <2>5 DEF Due, op
  <1> QED
    BY <1>2, <1>3, <1>4

-----------------------------------------------------------------------------
(* The theorems.                                                             *)

LEMMA StutterInv ==
  ASSUME IInv, UNCHANGED vars
  PROVE  IInv' /\ EndStep
  <1>1. UNCHANGED <<env, revisions, txns, desired, applied, ops, disk, ctl, decision,
                    core, ready>>
    BY DEF vars, dbVars, procVars, history
  <1>2. Typed' /\ CoreOK' /\ BootOK'
    BY <1>1 DEF IInv, Typed, StoreTyped, CoreOK, Ahead, BootOK
  <1>3. ops # <<>> => LatestOK(op, applied, ctl', decision')
    BY <1>1 DEF IInv, Ahead
  <1> QED
    BY <1>1, <1>2, <1>3, SameInv, SameEnd

LEMMA InitInv ==
  ASSUME Init
  PROVE  IInv
  <1>1. /\ ops = <<>> /\ txns = <<>> /\ disk = "idle" /\ ctl = "down" /\ desired = 1
        /\ applied = 1 /\ core = Down /\ decision = NoDecision /\ env = Initial
        /\ revisions = <<[content |-> Initial, scope |-> "nucleus"]>>
    BY DEF Init
  <1>2. /\ revisions \in Seq(RevType) /\ Len(revisions) = 1 /\ env \in Content
    <2>1. [content |-> Initial, scope |-> "nucleus"] \in RevType /\ Initial \in Content
      BY ContentAssumption DEF RevType
    <2> QED
      BY <1>1, <2>1
  <1>3. Len(ops) = 0 /\ Len(txns) = 0
    BY <1>1
  <1>4. RefsOK(txns, Len(revisions))
    BY <1>3 DEF RefsOK
  <1>5. Typed
    BY <1>1, <1>2, <1>4, DownTyped DEF Typed, StoreTyped
  <1>6. RowsOK /\ CoreOK /\ AppliedWasReady /\ Ahead
    BY <1>1, <1>3 DEF RowsOK, CoreOK, AppliedWasReady, Ahead, BootOK, Down
  <1> QED
    BY <1>5, <1>6 DEF IInv

LEMMA DueInit ==
  ASSUME Init
  PROVE  Due
  BY DEF Init, Due, Nothing, TodoType

(* Which steps leave the operations alone.                                   *)
LEMMA OpsKept ==
  ASSUME \/ \E c \in Content : SaveBegin(c) \/ Edit(c)
         \/ Store \/ Restore \/ BootRestore \/ CoreReady \/ CoreFails \/ BackoffEnds
         \/ Leave \/ Crash \/ BootStore \/ Launch
  PROVE  EndStep
  <1>1. CASE \E c \in Content : SaveBegin(c) \/ Edit(c)
    BY <1>1, SameEnd DEF SaveBegin, Edit
  <1>2. CASE Store
    BY <1>2, SameEnd DEF Store, SaveCheck, Replace, SaveCommit, UndoCommit, Settle
  <1>3. CASE Restore \/ BootRestore
    BY <1>3, SameEnd DEF Restore, BootRestore
  <1>4. CASE CoreReady \/ CoreFails \/ BackoffEnds
    BY <1>4, SameEnd DEF CoreReady, CoreFails, BackoffEnds
  <1>5. CASE Leave \/ Crash \/ BootStore \/ Launch
    BY <1>5, SameEnd DEF Leave, Crash, BootStore, Launch
  <1> QED
    BY <1>1, <1>2, <1>3, <1>4, <1>5

LEMMA StepInv ==
  ASSUME Inv, [Next]_vars
  PROVE  Inv' /\ EndStep
  <1>0. IInv /\ Due
    BY DEF Inv
  <1>1. CASE \/ \E c \in Content : SaveBegin(c) \/ Edit(c)
             \/ Store \/ Restore \/ BootRestore
    BY <1>0, <1>1, StoreStep, OpsKept, DueKept DEF Inv
  <1>2. CASE CoreReady \/ CoreFails \/ BackoffEnds
    BY <1>0, <1>2, CoreStepInv, OpsKept, DueKept DEF Inv
  <1>3. CASE Leave \/ Crash
    BY <1>0, <1>3, GoneInv, OpsKept, DueKept DEF Inv
  <1>4. CASE BootStore
    BY <1>0, <1>4, BootStoreInv, OpsKept, DueKept DEF Inv
  <1>5. CASE Launch
    BY <1>0, <1>5, LaunchInv, OpsKept, DueKept DEF Inv
  <1>6. CASE StopRun \/ StopDone \/ StartRun \/ StartDone \/ Prepare \/ Drain
             \/ Drained \/ DrainFails \/ Stopped \/ Verify
             \/ StartPrevious \/ PreviousDone
    BY <1>0, <1>6, OperationInv, OperationDue DEF Inv
  <1>7. CASE Decide(TRUE) \/ Decide(FALSE)
    BY <1>0, <1>7, DecideInv, DecideDue DEF Inv
  <1>8. CASE BootPrevious
    BY <1>0, <1>8, BootPreviousInv, DueKept DEF Inv
  <1>9. CASE Finalize
    BY <1>0, <1>9, FinalizeInv, FinalizeDue DEF Inv
  <1>10. CASE \E k \in Kinds : Accept(k)
    BY <1>0, <1>10, AcceptInv, AcceptDue DEF Inv
  <1>11. CASE CommitApplied \/ CommitWanted \/ CommitPhase
    BY <1>0, <1>11, CommitInv, CommitDue DEF Inv
  <1>12. CASE UNCHANGED vars
    BY <1>0, <1>12, StutterInv, DueKept DEF Inv
  <1> QED
    BY <1>1, <1>2, <1>3, <1>4, <1>5, <1>6, <1>7, <1>8, <1>9, <1>10, <1>11, <1>12
    DEF Next, Operation, Boot, CoreStep

(* The inductive invariant holds in every state.                             *)
THEOREM Inductive == Spec => []Inv
  <1>1. Init => Inv
    BY InitInv, DueInit DEF Inv
  <1>2. Inv /\ [Next]_vars => Inv'
    BY StepInv
  <1> QED
    BY <1>1, <1>2, PTL DEF Spec

(* The previous configuration is tried once per operation at most: by the    *)
(* task of the operation, by the start of the controller, or by the recovery *)
(* a failed start runs (operations.py:466, recovery.py:215).                 *)
THEOREM TriedOnce == Spec => []RecoveryOnce
  <1>1. Inv => RecoveryOnce
    BY DEF Inv, IInv, RowsOK, RowOK, RecoveryOnce
  <1> QED
    BY <1>1, Inductive, PTL

(* Only a revision a core was ready with is ever recorded as applied.        *)
THEOREM AppliedWorks == Spec => []AppliedWasReady
  <1>1. Inv => AppliedWasReady
    BY DEF Inv, IInv
  <1> QED
    BY <1>1, Inductive, PTL

(* An operation that ends as succeeded or rolled_back tells which revision   *)
(* is in effect, whichever process ends it.                                  *)
THEOREM EndsTrue == Spec => EndIsTrue
  <1>1. Inv /\ [Next]_vars => [EndStep]_vars
    BY StepInv
  <1>2. Spec => [][EndStep]_vars
    BY <1>1, Inductive, PTL DEF Spec
  <1> QED
    BY <1>2, PTL DEF EndIsTrue, EndStep
-----------------------------------------------------------------------------
(* The contract of OperationContract.                                        *)

(* The row of the open operation becomes o; its answer is true of what is    *)
(* in effect.                                                                *)
RowCall(o) ==
  /\ op.phase \notin Terminal /\ Becomes(o) /\ applied' = applied
  /\ o.target = op.target /\ o.prev = op.prev /\ o.kind = op.kind
  /\ o.phase = "succeeded" /\ op.kind # "core_stop" => applied = op.target
  /\ o.phase = "rolled_back" => applied = op.prev

(* The target of the open operation, or what was before it, is in effect.    *)
EffectCall ==
  /\ ops # <<>> /\ op.phase \notin Terminal
  /\ ops' = ops /\ applied' \in {op.target, op.prev}

NewCall ==
  /\ ops # <<>> => op.phase \in Terminal
  /\ ops' \in Seq(OpType) /\ ops' # <<>> /\ Len(ops') = Len(ops) + 1
  /\ \A i \in 1..Len(ops) : ops'[i] = ops[i]
  /\ op'.prev = applied /\ op'.phase \notin Terminal /\ applied' = applied

CallStep ==
  \/ UNCHANGED <<ops, applied>>
  \/ NewCall \/ EffectCall
  \/ \E o \in OpType : RowCall(o)

(* The operations as the contract sees them.                                 *)
Calls == [i \in 1..Len(ops) |-> AsCall(ops[i])]
CallRow == [target : Nat, prev : Nat, stops : BOOLEAN,
            said : Terminal \cup {"open"}]

LEMMA AsCallIs ==
  ASSUME NEW o \in OpType
  PROVE  /\ AsCall(o) \in CallRow
         /\ AsCall(o).target = o.target /\ AsCall(o).prev = o.prev
         /\ AsCall(o).stops = (o.kind = "core_stop")
         /\ o.phase \in Terminal => AsCall(o).said = o.phase
         /\ o.phase \notin Terminal <=> AsCall(o).said = "open"
  <1>1. "open" \notin Terminal
    BY DEF Terminal
  <1>2. Said(o.phase) \in Terminal \cup {"open"}
    BY DEF Said
  <1>3. o.target \in Nat /\ o.prev \in Nat
    BY DEF OpType
  <1>4. AsCall(o) \in CallRow
    BY <1>2, <1>3 DEF AsCall, CallRow
  <1>5. /\ o.phase \in Terminal => Said(o.phase) = o.phase
        /\ o.phase \notin Terminal <=> Said(o.phase) = "open"
    BY <1>1 DEF Said
  <1> QED
    BY <1>4, <1>5 DEF AsCall

LEMMA CallsAre ==
  ASSUME NEW s \in Seq(OpType), NEW c, c = [i \in 1..Len(s) |-> AsCall(s[i])]
  PROVE  /\ c \in Seq(CallRow) /\ Len(c) = Len(s)
         /\ \A i \in 1..Len(s) : c[i] = AsCall(s[i])
         /\ c = <<>> <=> s = <<>>
         /\ s # <<>> => s[Len(s)] \in OpType /\ c[Len(c)] = AsCall(s[Len(s)])
  <1>1. Len(s) \in Nat /\ \A i \in 1..Len(s) : s[i] \in OpType
    OBVIOUS
  <1>2. \A i \in 1..Len(s) : AsCall(s[i]) \in CallRow
    BY <1>1, AsCallIs
  <1>3. c \in Seq(CallRow) /\ Len(c) = Len(s)
    BY <1>1, <1>2
  <1>4. c = <<>> <=> s = <<>>
    BY <1>3
  <1>5. s # <<>> => Len(s) \in 1..Len(s)
    BY <1>1
  <1> QED
    BY <1>1, <1>3, <1>4, <1>5

LEMMA BeginsContract ==
  ASSUME Typed, NewCall
  PROVE  Contract!Begin
  <1>1. ops \in Seq(OpType) /\ ops' \in Seq(OpType) /\ Len(ops) \in Nat
    BY DEF Typed, NewCall
  <1>2. /\ Len(Calls) = Len(ops) /\ \A i \in 1..Len(ops) : Calls[i] = AsCall(ops[i])
        /\ Calls = <<>> <=> ops = <<>>
        /\ ops # <<>> => op \in OpType /\ Calls[Len(Calls)] = AsCall(op)
    BY <1>1, CallsAre DEF Calls, op
  <1>3. /\ Len(Calls') = Len(ops') /\ \A i \in 1..Len(ops') : Calls'[i] = AsCall(ops'[i])
        /\ op' \in OpType /\ Calls'[Len(Calls')] = AsCall(op')
    BY <1>1, CallsAre DEF Calls, op, NewCall
  <1>4. ~(Calls # <<>> /\ Calls[Len(Calls)].said = "open")
    BY <1>2, AsCallIs DEF NewCall
  <1>5. Len(Calls') = Len(Calls) + 1 /\ \A i \in 1..Len(Calls) : Calls'[i] = Calls[i]
    BY <1>1, <1>2, <1>3 DEF NewCall
  <1>6. Calls'[Len(Calls')].prev = applied /\ Calls'[Len(Calls')].said = "open"
    BY <1>3, AsCallIs DEF NewCall
  <1> QED
    BY <1>4, <1>5, <1>6 DEF Contract!Begin, Contract!Open, Contract!Last, Calls, NewCall

LEMMA AnswersContract ==
  ASSUME Typed, NEW o \in OpType, RowCall(o)
  PROVE  [Contract!Next]_(Contract!vars)
  <1>1. /\ ops \in Seq(OpType) /\ ops' \in Seq(OpType) /\ Len(ops) \in Nat
        /\ ops # <<>> /\ ops' # <<>> /\ Len(ops') = Len(ops) /\ op' = o
        /\ \A i \in 1..Len(ops) : i # Len(ops) => ops'[i] = ops[i]
    BY DEF Typed, RowCall, Becomes
  <1>2. /\ Calls \in Seq(CallRow) /\ Len(Calls) = Len(ops)
        /\ \A i \in 1..Len(ops) : Calls[i] = AsCall(ops[i])
        /\ Calls # <<>> /\ op \in OpType /\ Calls[Len(Calls)] = AsCall(op)
    BY <1>1, CallsAre DEF Calls, op
  <1>3. /\ Calls' \in Seq(CallRow) /\ Len(Calls') = Len(ops)
        /\ \A i \in 1..Len(ops) : Calls'[i] = AsCall(ops'[i])
        /\ Calls'[Len(Calls)] = AsCall(o)
    <2>1. /\ Calls' \in Seq(CallRow) /\ Len(Calls') = Len(ops')
          /\ \A i \in 1..Len(ops') : Calls'[i] = AsCall(ops'[i])
          /\ Calls'[Len(Calls')] = AsCall(op')
      BY <1>1, CallsAre DEF Calls, op
    <2> QED
      BY <1>1, <1>2, <2>1
  <1>4. /\ AsCall(op).said = "open" /\ AsCall(op) \in CallRow /\ AsCall(o) \in CallRow
        /\ AsCall(op).target = op.target /\ AsCall(op).prev = op.prev
        /\ AsCall(op).stops = (op.kind = "core_stop")
    BY <1>2, AsCallIs DEF RowCall
  <1>5. AsCall(o) = [AsCall(op) EXCEPT !.said = Said(o.phase)]
    BY DEF AsCall, RowCall
  <1>6. Calls' = [Calls EXCEPT ![Len(Calls)] = AsCall(o)]
    <2>1. Len(Calls) \in 1..Len(Calls)
      BY <1>1, <1>2
    <2>2. \A i \in 1..Len(Calls) : i # Len(Calls) => Calls'[i] = Calls[i]
      BY <1>1, <1>2, <1>3
    <2> DEFINE C == Calls
               D == [C EXCEPT ![Len(C)] = AsCall(o)]
    <2>3. D \in Seq(CallRow) /\ Len(D) = Len(C)
          /\ \A i \in 1..Len(C) : D[i] = IF i = Len(C) THEN AsCall(o) ELSE C[i]
      BY <1>2, <1>4, <2>1
    <2> HIDE DEF D, C
    <2>4. \A i \in 1..Len(C) : Calls'[i] = D[i]
      BY <1>3, <2>2, <2>3 DEF C
    <2>5. Calls' = D
      BY <1>2, <1>3, <2>3, <2>4 DEF C
    <2> QED
      BY <2>5 DEF D, C
  <1>7. Calls' = [Calls EXCEPT ![Len(Calls)].said = Said(o.phase)]
    BY <1>2, <1>5, <1>6
  <1>8. Contract!Open /\ Contract!Last = AsCall(op)
    BY <1>2, <1>4 DEF Contract!Open, Contract!Last, Calls
  <1>9. CASE o.phase \notin Terminal
    <2>1. Said(o.phase) = "open"
      BY <1>9 DEF Said
    <2>2. AsCall(o) = AsCall(op)
      BY <1>4, <1>5, <2>1 DEF CallRow
    <2>3. Calls' = Calls
      BY <1>2, <1>6, <2>2
    <2> QED
      BY <2>3 DEF Contract!vars, Calls, RowCall
  <1>10. ASSUME NEW said \in {"succeeded", "rolled_back", "failed"}, o.phase = said
         PROVE  Contract!Next
    <2>1. Said(o.phase) = said
      BY <1>10 DEF Said, Terminal
    <2>2. /\ applied' = applied
          /\ said = "succeeded" /\ ~AsCall(op).stops => applied = AsCall(op).target
          /\ said = "rolled_back" => applied = AsCall(op).prev
      BY <1>4, <1>10 DEF RowCall
    <2>3. Contract!Answer(said)
      BY <1>7, <1>8, <2>1, <2>2 DEF Contract!Answer, Calls
    <2> QED
      BY <2>3 DEF Contract!Next
  <1> QED
    BY <1>9, <1>10 DEF Terminal

LEMMA EffectsContract ==
  ASSUME Typed, EffectCall
  PROVE  [Contract!Next]_(Contract!vars)
  <1>1. /\ Calls # <<>> /\ op \in OpType /\ Calls[Len(Calls)] = AsCall(op)
    BY CallsAre DEF Calls, op, Typed, EffectCall
  <1>2. /\ AsCall(op).said = "open"
        /\ AsCall(op).target = op.target /\ AsCall(op).prev = op.prev
    BY <1>1, AsCallIs DEF EffectCall
  <1>3. Contract!Open /\ Contract!Last = AsCall(op)
    BY <1>1, <1>2 DEF Contract!Open, Contract!Last, Calls
  <1>4. Calls' = Calls
    BY DEF Calls, EffectCall
  <1>5. Contract!TakeEffect
    BY <1>2, <1>3, <1>4 DEF Contract!TakeEffect, Calls, EffectCall
  <1> QED
    BY <1>5 DEF Contract!Next

LEMMA StepContract ==
  ASSUME Typed, CallStep
  PROVE  [Contract!Next]_(Contract!vars)
  <1>1. CASE UNCHANGED <<ops, applied>>
    BY <1>1 DEF Contract!vars
  <1>2. CASE NewCall
    BY <1>2, BeginsContract DEF Contract!Next
  <1>3. CASE \E o \in OpType : RowCall(o)
    BY <1>3, AnswersContract
  <1>4. CASE EffectCall
    BY <1>4, EffectsContract
  <1> QED
    BY <1>1, <1>2, <1>3, <1>4 DEF CallStep
-----------------------------------------------------------------------------
(* Every step is a step of the contract or leaves the operations alone.      *)

(* The open operation moves to phase p.                                      *)
LEMMA PhaseCall ==
  ASSUME Typed, ops # <<>>, op.phase \notin Terminal, NEW p \in Phase, SetPhase(p),
         applied' = applied,
         p = "succeeded" /\ op.kind # "core_stop" => applied = op.target,
         p = "rolled_back" => applied = op.prev
  PROVE  CallStep
  <1>1. PICK o \in OpType : Becomes(o) /\ Moved(o, p)
    BY PhaseStep
  <1>2. RowCall(o)
    BY <1>1 DEF RowCall, Moved
  <1> QED
    BY <1>2 DEF CallStep

LEMMA StartedCall ==
  ASSUME Typed, ops # <<>>, op.phase \notin Terminal, applied' = applied,
         ops' = [ops EXCEPT ![Len(ops)].phase = "starting", ![Len(ops)].started = TRUE]
  PROVE  CallStep
  <1>1. PICK o \in OpType : Becomes(o) /\ Moved(o, "starting")
    BY StartedStep
  <1>2. RowCall(o)
    BY <1>1 DEF RowCall, Moved
  <1> QED
    BY <1>2 DEF CallStep

LEMMA RecoveryCall ==
  ASSUME Typed, ops # <<>>, op.phase \notin Terminal, applied' = applied, ToRecovery
  PROVE  CallStep
  <1>1. PICK o \in OpType :
           /\ Becomes(o)
           /\ o.phase = "restoring_config" /\ o.kind = op.kind /\ o.target = op.target
           /\ o.prev = op.prev
    BY RecoveryStep
  <1>2. RowCall(o)
    BY <1>1 DEF RowCall
  <1> QED
    BY <1>2 DEF CallStep

LEMMA AcceptCall ==
  ASSUME IInv, NEW kind \in Kinds, Accept(kind)
  PROVE  CallStep
  <1> DEFINE t == IF kind \in {"apply", "restart"} THEN desired ELSE applied
             s == IF kind \in {"apply", "restart"} THEN revisions[t].scope
                  ELSE "nucleus"
             o == [kind |-> kind, phase |-> "accepted", target |-> t,
                   prev |-> applied, scope |-> s,
                   attempted |-> FALSE, started |-> FALSE, undos |-> 0]
  <1>1. /\ applied' = applied /\ Active = {} /\ ops' = Append(ops, o)
    BY DEF Accept, dbVars
  <1>2. o.phase = "accepted" /\ o.prev = applied
    OBVIOUS
  <1> HIDE DEF o, t, s
  <1>3. IInv' /\ ops \in Seq(OpType) /\ ops' \in Seq(OpType)
    <2>1. IInv'
      BY AcceptInv
    <2> QED
      BY <2>1 DEF IInv, Typed
  <1>4. /\ Len(ops') = Len(ops) + 1 /\ ops'[Len(ops) + 1] = o
        /\ \A i \in 1..Len(ops) : ops'[i] = ops[i]
        /\ ops' # <<>> /\ Len(ops) \in Nat
    BY <1>1, <1>3
  <1>5. op' = o
    BY <1>4 DEF op
  <1>6. ops # <<>> => op.phase \in Terminal
    BY <1>1 DEF Active, op
  <1>7. "accepted" \notin Terminal
    BY DEF Terminal
  <1>8. NewCall
    BY <1>1, <1>2, <1>3, <1>4, <1>5, <1>6, <1>7 DEF NewCall
  <1> QED
    BY <1>8 DEF CallStep

LEMMA OperationCall ==
  ASSUME IInv, StopRun \/ StopDone \/ StartRun \/ StartDone \/ Prepare \/ Drain
               \/ Drained \/ DrainFails \/ Stopped \/ Verify
               \/ StartPrevious \/ PreviousDone
  PROVE  CallStep
  <1>1. /\ ops # <<>> /\ applied' = applied /\ Typed
        /\ op.phase \in {"accepted", "stopping", "starting", "prepared", "draining",
                         "restoring_config", "starting_previous"}
    BY DEF StopRun, StopDone, StartRun, StartDone, Prepare, Drain, Drained,
           DrainFails, Stopped, Verify, StartPrevious, PreviousDone, At, dbVars, IInv
  <1>2. op.phase \notin Terminal
    BY <1>1 DEF Terminal
  <1>3. CASE StopDone \/ StartDone \/ PreviousDone
    BY <1>1, <1>3 DEF StopDone, StartDone, PreviousDone, CallStep
  <1>4. CASE DrainFails
    BY <1>1, <1>2, <1>4, RecoveryCall DEF DrainFails
  <1>5. CASE StopRun \/ StartRun \/ Prepare \/ Drain \/ Drained \/ Stopped \/ Verify
             \/ StartPrevious
    <2>1. \E p \in {"stopping", "starting", "failed", "prepared", "draining", "verifying",
                   "awaiting_controller_restart", "starting_previous"} : SetPhase(p)
      BY <1>5 DEF StopRun, StartRun, Prepare, Drain, Drained, Stopped, Verify,
                  StartPrevious
    <2> QED
      BY <1>1, <1>2, <2>1, PhaseCall DEF Phase, Terminal
  <1> QED
    BY <1>3, <1>4, <1>5

LEMMA CommitCall ==
  ASSUME IInv, Due, CommitApplied \/ CommitWanted \/ CommitPhase
  PROVE  CallStep
  <1>0. Typed
    BY DEF IInv
  <1>1. CASE CommitApplied
    <2>1. PICK r \in todo.revs : applied' = r
      BY <1>1 DEF CommitApplied, SetApplied
    <2>2. ops # <<>> /\ op.phase \notin Terminal /\ r \in {op.target, op.prev}
      BY <2>1 DEF Due, DueOK
    <2>3. ops' = ops
      BY <1>1 DEF CommitApplied
    <2> QED
      BY <2>1, <2>2, <2>3 DEF CallStep, EffectCall
  <1>2. CASE CommitWanted
    BY <1>2 DEF CommitWanted, CallStep
  <1>3. CASE CommitPhase
    <2>1. /\ todo.revs = {} /\ todo.phase # "" /\ applied' = applied
          /\ IF todo.phase = "restoring_config" THEN ToRecovery ELSE SetPhase(todo.phase)
      BY <1>3 DEF CommitPhase, dbVars
    <2>2. ops # <<>> /\ DueOK(op, todo, applied, core, ready)
          /\ todo.phase \in Terminal \cup {"", "restoring_config"}
      BY <2>1 DEF Due, TodoType
    <2>3. CASE todo.phase = "restoring_config"
      BY <1>0, <2>1, <2>2, <2>3, RecoveryCall DEF DueOK
    <2>4. CASE todo.phase # "restoring_config"
      <3>1. todo.phase \in Phase
        BY <2>1, <2>2, <2>4 DEF Phase
      <3> QED
        BY <1>0, <2>1, <2>2, <2>4, <3>1, PhaseCall DEF DueOK
    <2> QED
      BY <2>3, <2>4
  <1> QED
    BY <1>1, <1>2, <1>3

LEMMA DecideCall ==
  ASSUME IInv, NEW same \in BOOLEAN, Decide(same)
  PROVE  CallStep
  <1>1. Typed /\ applied' = applied
    BY DEF Decide, IInv, dbVars
  <1>2. Active # {} => ops # <<>> /\ op.phase \notin Terminal
    BY DEF Active, op
  <1>3. \/ ops' = ops
        \/ Active # {} /\ op.kind = "core_stop" /\ SetPhase("succeeded")
        \/ Active # {} /\ SetPhase("failed")
        \/ /\ Active # {}
           /\ ops' = [ops EXCEPT ![Len(ops)].phase = "starting",
                                 ![Len(ops)].started = TRUE]
        \/ Active # {} /\ ToRecovery
    BY DEF Decide
  <1>4. CASE ops' = ops
    BY <1>1, <1>4 DEF CallStep
  <1>5. CASE Active # {} /\ op.kind = "core_stop" /\ SetPhase("succeeded")
    BY <1>1, <1>2, <1>5, PhaseCall DEF Phase, Terminal
  <1>6. CASE Active # {} /\ SetPhase("failed")
    BY <1>1, <1>2, <1>6, PhaseCall DEF Phase, Terminal
  <1>7. CASE Active # {} /\ ops' = [ops EXCEPT ![Len(ops)].phase = "starting",
                                               ![Len(ops)].started = TRUE]
    BY <1>1, <1>2, <1>7, StartedCall
  <1>8. CASE Active # {} /\ ToRecovery
    BY <1>1, <1>2, <1>8, RecoveryCall
  <1> QED
    BY <1>3, <1>4, <1>5, <1>6, <1>7, <1>8

LEMMA BootCall ==
  ASSUME IInv, BootPrevious \/ Finalize
  PROVE  CallStep
  <1>0. Typed /\ applied' = applied
    BY DEF IInv, BootPrevious, Finalize, dbVars
  <1>1. CASE BootPrevious
    <2>1. ops # <<>> /\ ctl = "restoring" /\ SetPhase("starting_previous")
      BY <1>1 DEF BootPrevious, IInv, Ahead, BootOK
    <2>2. op.phase = "restoring_config"
      BY <2>1, OpRow DEF LatestOK
    <2> QED
      BY <1>0, <2>1, <2>2, PhaseCall DEF Phase, Terminal
  <1>2. CASE Finalize
    <2>1. ctl = "launched"
      BY <1>2 DEF Finalize
    <2>2. CASE ops' = ops
      BY <1>0, <2>2 DEF CallStep
    <2>3. CASE decision.action = "controller_target" /\ ToRecovery
      <3>1. ops # <<>>
        BY <2>1, <2>3 DEF IInv, Ahead, BootOK
      <3>2. op.phase \notin Terminal
        BY <2>1, <2>3, <3>1, OpRow DEF LatestOK
      <3> QED
        BY <1>0, <2>3, <3>1, <3>2, RecoveryCall
    <2> QED
      BY <1>2, <2>2, <2>3 DEF Finalize
  <1> QED
    BY <1>1, <1>2

(* Which steps leave the operations and what is in effect alone.             *)
LEMMA CallsKept ==
  ASSUME \/ \E c \in Content : SaveBegin(c) \/ Edit(c)
         \/ Store \/ Restore \/ BootRestore \/ CoreReady \/ CoreFails \/ BackoffEnds
         \/ Leave \/ Crash \/ BootStore \/ Launch \/ UNCHANGED vars
  PROVE  CallStep
  <1> SUFFICES UNCHANGED <<ops, applied>>
    BY DEF CallStep
  <1>1. CASE \E c \in Content : SaveBegin(c) \/ Edit(c)
    BY <1>1 DEF SaveBegin, Edit, dbVars
  <1>2. CASE Store
    BY <1>2 DEF Store, SaveCheck, Replace, SaveCommit, UndoCommit, Settle, dbVars
  <1>3. CASE Restore \/ BootRestore
    BY <1>3 DEF Restore, BootRestore
  <1>4. CASE CoreReady \/ CoreFails \/ BackoffEnds
    BY <1>4 DEF CoreReady, CoreFails, BackoffEnds, dbVars
  <1>5. CASE Leave \/ Crash \/ BootStore \/ Launch
    BY <1>5 DEF Leave, Crash, BootStore, Launch, dbVars
  <1>6. CASE UNCHANGED vars
    BY <1>6 DEF vars, dbVars
  <1> QED
    BY <1>1, <1>2, <1>3, <1>4, <1>5, <1>6

LEMMA StepCall ==
  ASSUME Inv, [Next]_vars
  PROVE  CallStep
  <1>0. IInv /\ Due
    BY DEF Inv
  <1>1. CASE \/ \E c \in Content : SaveBegin(c) \/ Edit(c)
             \/ Store \/ Restore \/ BootRestore \/ CoreReady \/ CoreFails \/ BackoffEnds
             \/ Leave \/ Crash \/ BootStore \/ Launch \/ UNCHANGED vars
    BY <1>1, CallsKept
  <1>2. CASE StopRun \/ StopDone \/ StartRun \/ StartDone \/ Prepare \/ Drain
             \/ Drained \/ DrainFails \/ Stopped \/ Verify
             \/ StartPrevious \/ PreviousDone
    BY <1>0, <1>2, OperationCall
  <1>3. CASE Decide(TRUE) \/ Decide(FALSE)
    BY <1>0, <1>3, DecideCall
  <1>4. CASE BootPrevious \/ Finalize
    BY <1>0, <1>4, BootCall
  <1>5. CASE \E k \in Kinds : Accept(k)
    BY <1>0, <1>5, AcceptCall
  <1>6. CASE CommitApplied \/ CommitWanted \/ CommitPhase
    BY <1>0, <1>6, CommitCall
  <1> QED
    BY <1>1, <1>2, <1>3, <1>4, <1>5, <1>6 DEF Next, Operation, Boot, CoreStep

(* Phases, drains, starts, recoveries and crashes keep the contract of an    *)
(* operation: it is answered once, its answer says what is in effect, and    *)
(* nothing but an operation under way changes that.                          *)
THEOREM OperationIsKept == Spec => ImplementsOperations
  <1>1. Init => Contract!Init
    <2> SUFFICES ASSUME Init PROVE Contract!Init
      OBVIOUS
    <2>1. ops = <<>> /\ applied = 1 /\ Len(ops) = 0
      BY DEF Init
    <2>2. Calls = <<>>
      BY <2>1 DEF Calls
    <2> QED
      BY <2>1, <2>2 DEF Contract!Init, Calls
  <1>2. Inv /\ [Next]_vars => [Contract!Next]_(Contract!vars)
    <2> SUFFICES ASSUME Inv, [Next]_vars PROVE [Contract!Next]_(Contract!vars)
      OBVIOUS
    <2>1. Typed /\ CallStep
      BY StepCall DEF Inv, IInv
    <2> QED
      BY <2>1, StepContract
  <1> QED
    BY <1>1, <1>2, Inductive, PTL DEF Spec, ImplementsOperations, Contract!Spec
=============================================================================
