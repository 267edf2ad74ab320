--------------------------- MODULE CoronaStoreProofs ---------------------------
(* The configuration store of Corona: .env and the control database agree    *)
(* after any crash, and the log of transactions tells what became of a save. *)
EXTENDS CoronaProofs

-----------------------------------------------------------------------------
(* The inductive invariant.                                                  *)

Idle == disk = "idle"
Saving == {"save_prepared", "save_checked", "save_replaced"}
Undoing == {"undo_prepared", "undo_replaced"}
Replaced == {"save_replaced", "undo_replaced"}

Pending == txns # <<>> /\ LastTxn.state = "PREPARED"

(* A row of the log names the revisions whose contents it replaces and       *)
(* writes, and a rollback is the inverse of the save it undoes.              *)
TxnOK(log, revs, i) ==
  LET t == log[i] IN
  /\ revs[t.rev].content = t.after /\ revs[t.expected].content = t.before
  /\ t.state = "PREPARED" => i = Len(log)
  /\ t.purpose = "rollback" =>
       /\ t.of \in 1..(i - 1) /\ log[t.of].purpose = "save"
       /\ log[t.of].rev = t.expected /\ log[t.of].expected = t.rev

LogOK == \A i \in 1..Len(txns) : TxnOK(txns, revisions, i)

(* The step of a store procedure and the transaction it left open.           *)
DiskOK ==
  /\ ctl = "down" => Idle
  /\ ~Idle => ctl \in {"up", "recovering", "restoring"} /\ Pending
  /\ disk \in Saving => LastTxn.purpose = "save"
  /\ disk \in Undoing => LastTxn.purpose = "rollback"
  /\ disk \in Saving \cup Undoing \cup {"idle"}
  /\ Pending => LastTxn.expected = desired /\ (Idle => ctl = "down")

(* The file before and after it was replaced.                                *)
EnvOK ==
  /\ ctl # "down" /\ disk \notin Replaced => Intact \/ conflict \/ touched
  /\ disk \in Replaced => env = LastTxn.after \/ touched

(* The file as long as nobody edits it.                                      *)
FileOK ==
  /\ edits \in Nat
  /\ edits = 0 =>
       /\ ~touched
       /\ ~Pending => Intact
       /\ Pending /\ disk \in Replaced => env = LastTxn.after
       /\ Pending /\ disk \notin Replaced /\ ctl # "down" => env = LastTxn.before
       /\ Pending => env \in {LastTxn.before, LastTxn.after}

(* A revision came to be the desired one, or never was.                      *)
Seen(i) ==
  \/ desired = txns[i].rev
  \/ \E j \in (i + 1)..Len(txns) :
       txns[j].expected = txns[i].rev /\ txns[j].state \notin {"PREPARED", "ABORTED"}
Unused(i) ==
  desired # txns[i].rev /\ \A j \in 1..Len(txns) : txns[j].expected # txns[i].rev
Alone(i) ==
  \A j \in 1..Len(txns) :
    j # i /\ txns[j].purpose = "save" => txns[j].rev # txns[i].rev

SaveOK(i) ==
  /\ txns[i].state # "CONFLICT"
  /\ txns[i].purpose = "save" =>
       /\ Alone(i)
       /\ txns[i].state \in {"COMMITTED", "ROLLED_BACK"} => Seen(i)
       /\ txns[i].state \in {"PREPARED", "ABORTED"} => Unused(i)

SavesOK == edits = 0 => \A i \in 1..Len(txns) : SaveOK(i)

StoreInv == LogOK /\ DiskOK /\ EnvOK /\ FileOK /\ SavesOK

-----------------------------------------------------------------------------
(* Changes to the log.                                                       *)

SameRow(a, b) ==
  /\ a.rev = b.rev /\ a.expected = b.expected /\ a.before = b.before
  /\ a.after = b.after /\ a.purpose = b.purpose /\ a.of = b.of

(* Only states of rows change.                                               *)
SameRows ==
  /\ Len(txns') = Len(txns)
  /\ \A i \in 1..Len(txns) : SameRow(txns'[i], txns[i])

LEMMA LogTyped ==
  ASSUME Typed
  PROVE  /\ txns \in Seq(TxnType) /\ Len(txns) \in Nat
         /\ revisions \in Seq(RevType) /\ Len(revisions) \in Nat
         /\ desired \in 1..Len(revisions)
         /\ \A i \in 1..Len(txns) :
              /\ txns[i] \in TxnType
              /\ txns[i].rev \in 1..Len(revisions)
              /\ txns[i].expected \in 1..Len(revisions)
         /\ txns # <<>> => Len(txns) \in 1..Len(txns)
         /\ txns = <<>> => Len(txns) = 0
  BY DEF Typed, StoreTyped, RefsOK

LEMMA MarkRows ==
  ASSUME NEW ts \in Seq(TxnType), NEW k \in 1..Len(ts), NEW state \in TxnStates
  PROVE  LET us == [ts EXCEPT ![k].state = state] IN
         /\ us \in Seq(TxnType) /\ Len(us) = Len(ts)
         /\ \A i \in 1..Len(ts) :
              /\ SameRow(us[i], ts[i])
              /\ us[i].state = IF i = k THEN state ELSE ts[i].state
  <1>1. ts[k] \in TxnType
    OBVIOUS
  <1> DEFINE r == [ts[k] EXCEPT !.state = state]
  <1>2. r \in TxnType /\ SameRow(r, ts[k]) /\ r.state = state
    BY <1>1 DEF TxnType, TxnStates, SameRow
  <1> HIDE DEF r
  <1>3. /\ [ts EXCEPT ![k] = r] \in Seq(TxnType) /\ Len([ts EXCEPT ![k] = r]) = Len(ts)
        /\ \A i \in 1..Len(ts) : [ts EXCEPT ![k] = r][i] = IF i = k THEN r ELSE ts[i]
    BY <1>2
  <1>4. \A i \in 1..Len(ts) : SameRow(ts[i], ts[i])
    BY DEF SameRow
  <1>5. [ts EXCEPT ![k] = r] = [ts EXCEPT ![k].state = state]
    BY DEF r
  <1> QED
    BY <1>2, <1>3, <1>4, <1>5

(* Mark decides the last row.                                                *)
LEMMA MarkLast ==
  ASSUME Typed, txns # <<>>, NEW state \in TxnStates, Mark(state)
  PROVE  /\ SameRows /\ txns' # <<>>
         /\ \A i \in 1..Len(txns) :
              txns'[i].state = IF i = Len(txns) THEN state ELSE txns[i].state
         /\ SameRow(LastTxn', LastTxn) /\ LastTxn'.state = state
  <1>1. txns \in Seq(TxnType) /\ Len(txns) \in 1..Len(txns)
    BY LogTyped
  <1>2. /\ txns' \in Seq(TxnType) /\ Len(txns') = Len(txns)
        /\ \A i \in 1..Len(txns) :
             /\ SameRow(txns'[i], txns[i])
             /\ txns'[i].state = IF i = Len(txns) THEN state ELSE txns[i].state
    BY <1>1, MarkRows DEF Mark
  <1> QED
    BY <1>1, <1>2 DEF SameRows, LastTxn

LEMMA AppendRow ==
  ASSUME Typed, NEW x, txns' = Append(txns, x)
  PROVE  /\ Len(txns') = Len(txns) + 1 /\ txns' # <<>> /\ LastTxn' = x
         /\ txns'[Len(txns) + 1] = x
         /\ \A i \in 1..Len(txns) : txns'[i] = txns[i]
  BY LogTyped DEF LastTxn

(* Revisions are only ever added.                                            *)
Grows ==
  \A r \in 1..Len(revisions) : revisions'[r].content = revisions[r].content

LEMMA ImportEffect ==
  ASSUME Typed, NEW d \in 1..Len(revisions), Import(d)
  PROVE  /\ Grows /\ touched' = FALSE
         /\ env = revisions'[desired'].content \/ conflict'
         /\ env = ContentOf(d) => revisions' = revisions /\ desired' = d
  <1>1. revisions \in Seq(RevType) /\ Len(revisions) \in Nat
    BY LogTyped
  <1>2. CASE env = ContentOf(d)
    BY <1>2 DEF Import, Grows, ContentOf
  <1>3. CASE env # ContentOf(d) /\ env \in Broken
    BY <1>3 DEF Import, Grows, ContentOf
  <1>4. ASSUME env # ContentOf(d), env \notin Broken,
               NEW s \in Scopes,
               revisions' = Append(revisions, [content |-> env, scope |-> s])
        PROVE  Grows /\ revisions'[Len(revisions) + 1].content = env
    BY <1>1, <1>4 DEF Grows, ContentOf
  <1> QED
    BY <1>2, <1>3, <1>4 DEF Import, ContentOf

-----------------------------------------------------------------------------
(* LogOK                                                                     *)

(* Rows stay, but that a row that was open may be decided.                   *)
LEMMA LogKept ==
  ASSUME Typed, LogOK, SameRows, Grows,
         \A i \in 1..Len(txns) : txns'[i].state = "PREPARED" => i = Len(txns)
  PROVE  LogOK'
  <1> SUFFICES ASSUME NEW i \in 1..Len(txns) PROVE TxnOK(txns', revisions', i)
    BY DEF SameRows, LogOK
  <1>1. TxnOK(txns, revisions, i) /\ SameRow(txns'[i], txns[i])
    BY DEF LogOK, SameRows
  <1>2. txns[i].rev \in 1..Len(revisions) /\ txns[i].expected \in 1..Len(revisions)
    BY LogTyped
  <1>3. revisions'[txns'[i].rev].content = txns'[i].after
        /\ revisions'[txns'[i].expected].content = txns'[i].before
    BY <1>1, <1>2 DEF TxnOK, SameRow, Grows
  <1>4. ASSUME txns[i].purpose = "rollback"
        PROVE  /\ txns[i].of \in 1..(i - 1)
               /\ SameRow(txns'[txns[i].of], txns[txns[i].of])
    <2>1. txns[i].of \in 1..(i - 1) /\ Len(txns) \in Nat
      BY <1>1, <1>4, LogTyped DEF TxnOK
    <2>2. txns[i].of \in 1..Len(txns)
      BY <2>1
    <2> QED
      BY <2>1, <2>2 DEF SameRows
  <1>5. txns'[i].purpose = "rollback" =>
          /\ txns'[i].of \in 1..(i - 1) /\ txns'[txns'[i].of].purpose = "save"
          /\ txns'[txns'[i].of].rev = txns'[i].expected
          /\ txns'[txns'[i].of].expected = txns'[i].rev
    BY <1>1, <1>4 DEF SameRow, TxnOK
  <1>6. txns'[i].state = "PREPARED" => i = Len(txns')
    BY DEF SameRows
  <1> QED
    BY <1>3, <1>5, <1>6 DEF TxnOK

LEMMA LogSame ==
  ASSUME Typed, LogOK, txns' = txns, Grows
  PROVE  LogOK'
  <1>1. SameRows
    BY DEF SameRows, SameRow
  <1>2. \A i \in 1..Len(txns) : txns'[i].state = "PREPARED" => i = Len(txns)
    BY DEF LogOK, TxnOK
  <1> QED
    BY <1>1, <1>2, LogKept

LEMMA LogMarked ==
  ASSUME Typed, LogOK, txns # <<>>, NEW state \in TxnStates, Mark(state), Grows
  PROVE  LogOK'
  <1>1. SameRows
        /\ \A i \in 1..Len(txns) :
             txns'[i].state = IF i = Len(txns) THEN state ELSE txns[i].state
    BY MarkLast
  <1>2. \A i \in 1..Len(txns) : txns'[i].state = "PREPARED" => i = Len(txns)
    BY <1>1 DEF LogOK, TxnOK
  <1> QED
    BY <1>1, <1>2, LogKept

(* A new row after rows that are decided.                                    *)
LEMMA LogAppended ==
  ASSUME Typed, LogOK, ~Pending, Grows, NEW x, txns' = Append(txns, x),
         revisions'[x.rev].content = x.after, revisions'[x.expected].content = x.before,
         x.purpose = "rollback" =>
           /\ x.of \in 1..Len(txns) /\ txns[x.of].purpose = "save"
           /\ txns[x.of].rev = x.expected /\ txns[x.of].expected = x.rev
  PROVE  LogOK'
  <1>1. /\ Len(txns) \in Nat /\ Len(txns') = Len(txns) + 1
        /\ txns'[Len(txns) + 1] = x
        /\ \A i \in 1..Len(txns) : txns'[i] = txns[i]
    BY AppendRow, LogTyped
  <1>2. ASSUME NEW i \in 1..Len(txns) PROVE TxnOK(txns', revisions', i)
    <2>1. TxnOK(txns, revisions, i) /\ txns'[i] = txns[i]
      BY <1>1 DEF LogOK
    <2>2. txns[i].rev \in 1..Len(revisions) /\ txns[i].expected \in 1..Len(revisions)
      BY LogTyped
    <2>3. txns[i].state # "PREPARED"
      <3>1. txns[i].state = "PREPARED" => i = Len(txns) /\ txns # <<>>
        BY <2>1, LogTyped DEF TxnOK
      <3> QED
        BY <3>1 DEF Pending, LastTxn
    <2>4. revisions'[txns'[i].rev].content = txns'[i].after
          /\ revisions'[txns'[i].expected].content = txns'[i].before
      BY <2>1, <2>2 DEF TxnOK, Grows
    <2>5. txns[i].of \in 1..(i - 1) => txns'[txns[i].of] = txns[txns[i].of]
      BY <1>1
    <2> QED
      BY <2>1, <2>3, <2>4, <2>5 DEF TxnOK
  <1>3. TxnOK(txns', revisions', Len(txns) + 1)
    <2>1. x.of \in 1..Len(txns) => txns'[x.of] = txns[x.of]
      BY <1>1
    <2>2. (Len(txns) + 1) - 1 = Len(txns)
      BY <1>1
    <2> QED
      BY <1>1, <2>1, <2>2 DEF TxnOK
  <1>4. \A i \in 1..Len(txns') : i \in 1..Len(txns) \/ i = Len(txns) + 1
    BY <1>1
  <1> QED
    BY <1>2, <1>3, <1>4 DEF LogOK

-----------------------------------------------------------------------------
(* SavesOK                                                                   *)

LEMMA SavesKept ==
  ASSUME SavesOK, SameRows, desired' = desired, edits' = edits,
         \A i \in 1..Len(txns) : txns'[i].state = txns[i].state
  PROVE  SavesOK'
  <1> SUFFICES ASSUME edits = 0, NEW i \in 1..Len(txns) PROVE SaveOK(i)'
    BY DEF SavesOK, SameRows
  <1>1. SaveOK(i)
    BY DEF SavesOK
  <1>2. Alone(i) => Alone(i)'
    BY DEF Alone, SameRows, SameRow
  <1>3. Seen(i) => Seen(i)'
    <2>1. \A j \in (i + 1)..Len(txns) : j \in 1..Len(txns)
      OBVIOUS
    <2> QED
      BY <2>1 DEF Seen, SameRows, SameRow
  <1>4. Unused(i) => Unused(i)'
    BY DEF Unused, SameRows, SameRow
  <1>5. SameRow(txns'[i], txns[i]) /\ txns'[i].state = txns[i].state
    BY DEF SameRows
  <1> QED
    BY <1>1, <1>2, <1>3, <1>4, <1>5 DEF SaveOK, SameRow

LEMMA SavesAppended ==
  ASSUME Typed, SavesOK, desired' = desired, edits' = edits,
         NEW x, txns' = Append(txns, x), x.expected = desired, x.state = "PREPARED",
         x.purpose = "save" => x.rev = Len(revisions) + 1
  PROVE  SavesOK'
  <1> SUFFICES ASSUME edits = 0, NEW i \in 1..Len(txns') PROVE SaveOK(i)'
    BY DEF SavesOK
  <1>1. /\ Len(txns) \in Nat /\ Len(txns') = Len(txns) + 1
        /\ txns'[Len(txns) + 1] = x
        /\ \A j \in 1..Len(txns) : txns'[j] = txns[j]
        /\ Len(revisions) \in Nat /\ desired \in 1..Len(revisions)
        /\ \A j \in 1..Len(txns) : /\ txns[j].rev \in 1..Len(revisions)
                                   /\ txns[j].expected \in 1..Len(revisions)
        /\ \A j \in 1..Len(txns') : j \in 1..Len(txns) \/ j = Len(txns) + 1
    BY AppendRow, LogTyped
  <1>2. CASE i \in 1..Len(txns)
    <2>1. SaveOK(i) /\ txns'[i] = txns[i]
      BY <1>1, <1>2 DEF SavesOK
    <2>2. txns[i].rev \in 1..Len(revisions) /\ txns[i].rev # Len(revisions) + 1
      BY <1>1, <1>2
    <2>3. Alone(i) => Alone(i)'
      BY <1>1, <2>1, <2>2 DEF Alone
    <2>4. Seen(i) => Seen(i)'
      <3>1. \A j \in (i + 1)..Len(txns) :
              j \in 1..Len(txns) /\ j \in (i + 1)..Len(txns')
        BY <1>1, <1>2
      <3> QED
        BY <1>1, <2>1, <3>1 DEF Seen
    <2>5. Unused(i) => Unused(i)'
      BY <1>1, <2>1 DEF Unused
    <2> QED
      BY <2>1, <2>3, <2>4, <2>5 DEF SaveOK
  <1>3. CASE i = Len(txns) + 1 /\ x.purpose = "save"
    <2>1. txns'[i] = x /\ x.rev = Len(revisions) + 1
      BY <1>1, <1>3
    <2>2. Alone(i)'
      BY <1>1, <1>3, <2>1 DEF Alone
    <2>3. Unused(i)'
      BY <1>1, <1>3, <2>1 DEF Unused
    <2> QED
      BY <2>1, <2>2, <2>3 DEF SaveOK
  <1>4. CASE i = Len(txns) + 1 /\ x.purpose # "save"
    BY <1>1, <1>4 DEF SaveOK
  <1> QED
    BY <1>1, <1>2, <1>3, <1>4

(* The open row is decided; a rollback that is committed marks its save.     *)
Decides(v) ==
  /\ SameRows
  /\ txns'[Len(txns)].state = v
  /\ \A i \in 1..Len(txns) : i # Len(txns) =>
       \/ txns'[i].state = txns[i].state
       \/ v = "COMMITTED" /\ txns'[i].state = "ROLLED_BACK"
          /\ LastTxn.purpose = "rollback" /\ LastTxn.of = i
  /\ desired' = IF v = "COMMITTED" THEN LastTxn.rev ELSE desired

LEMMA SavesDecided ==
  ASSUME Typed, LogOK, SavesOK, Pending, LastTxn.expected = desired, edits' = edits,
         NEW v \in {"COMMITTED", "ABORTED"}, Decides(v)
  PROVE  SavesOK'
  <1> SUFFICES ASSUME edits = 0, NEW i \in 1..Len(txns) PROVE SaveOK(i)'
    BY DEF SavesOK, Decides, SameRows
  <1> DEFINE k == Len(txns)
  <1>1. /\ k \in Nat /\ k \in 1..k /\ Len(txns') = k
        /\ txns[k].state = "PREPARED" /\ txns[k].expected = desired
        /\ txns'[k].state = v
        /\ \A j \in 1..k : SameRow(txns'[j], txns[j])
    BY LogTyped DEF Pending, LastTxn, Decides, SameRows
  <1>2. SaveOK(i) /\ SaveOK(k) /\ TxnOK(txns, revisions, k)
    BY <1>1 DEF SavesOK, LogOK
  <1>3. \A j \in 1..k : j # k =>
          \/ txns'[j].state = txns[j].state
          \/ v = "COMMITTED" /\ txns'[j].state = "ROLLED_BACK"
             /\ txns[k].purpose = "rollback" /\ txns[k].of = j
    BY DEF Decides, LastTxn
  <1>4. desired' = IF v = "COMMITTED" THEN txns[k].rev ELSE desired
    BY DEF Decides, LastTxn
  <1> HIDE DEF k
  <1>5. Alone(i) => Alone(i)'
    BY <1>1 DEF Alone, SameRow, k
  <1>6. Seen(i) /\ i # k => Seen(i)'
    <2>1. CASE desired = txns[i].rev /\ v = "COMMITTED" /\ i # k
      <3>1. k \in (i + 1)..Len(txns')
        BY <1>1, <2>1 DEF k
      <3>2. txns'[k].expected = txns'[i].rev /\ txns'[k].state = "COMMITTED"
        BY <1>1, <2>1 DEF SameRow, k
      <3> QED
        BY <3>1, <3>2 DEF Seen
    <2>2. CASE desired = txns[i].rev /\ v = "ABORTED"
      BY <1>1, <1>4, <2>2 DEF Seen, SameRow, k
    <2>3. ASSUME NEW j \in (i + 1)..Len(txns), txns[j].expected = txns[i].rev,
                 txns[j].state \notin {"PREPARED", "ABORTED"}
          PROVE  Seen(i)'
      <3>1. j \in 1..k /\ j # k /\ j \in (i + 1)..Len(txns')
        BY <1>1, <2>3 DEF k
      <3>2. txns'[j].state \notin {"PREPARED", "ABORTED"}
        BY <1>3, <2>3, <3>1
      <3>3. txns'[j].expected = txns'[i].rev
        BY <1>1, <2>3, <3>1 DEF SameRow, k
      <3> QED
        BY <3>1, <3>2, <3>3 DEF Seen
    <2> QED
      BY <2>1, <2>2, <2>3 DEF Seen
  <1>7. CASE i = k
    <2>1. CASE v = "COMMITTED"
      <3>1. Seen(i)'
        BY <1>1, <1>4, <1>7, <2>1 DEF Seen, SameRow
      <3> QED
        BY <1>1, <1>2, <1>5, <1>7, <2>1, <3>1 DEF SaveOK, SameRow
    <2>2. CASE v = "ABORTED"
      <3>1. Unused(i) => Unused(i)'
        BY <1>1, <1>4, <2>2 DEF Unused, SameRow, k
      <3> QED
        BY <1>1, <1>2, <1>5, <1>7, <2>2, <3>1 DEF SaveOK, SameRow
    <2> QED
      BY <2>1, <2>2
  <1>8. CASE i # k
    <2>1. txns[i].state # "PREPARED"
      BY <1>8 DEF LogOK, TxnOK, k
    <2>2. ASSUME txns'[i].state = "ROLLED_BACK", txns[k].purpose = "rollback",
                 txns[k].of = i, v = "COMMITTED"
          PROVE  SaveOK(i)'
      <3>1. txns[i].rev = desired
        BY <1>1, <1>2, <2>2 DEF TxnOK
      <3>2. Seen(i)'
        BY <1>6, <1>8, <3>1 DEF Seen
      <3>3. txns[i].purpose = "save"
        BY <1>2, <2>2 DEF TxnOK
      <3> QED
        BY <1>2, <1>5, <2>2, <3>2, <3>3 DEF SaveOK
    <2>3. ASSUME txns'[i].state = txns[i].state PROVE SaveOK(i)'
      <3>1. txns[i].purpose = "save" /\ Unused(i) /\ Alone(i)
              => txns[k].rev # txns[i].rev
        <4>1. CASE txns[k].purpose = "save"
          BY <1>1, <1>8, <4>1 DEF Alone, k
        <4>2. CASE txns[k].purpose = "rollback"
          <5>1. txns[k].of \in 1..Len(txns) /\ txns[txns[k].of].expected = txns[k].rev
            BY <1>1, <1>2, <4>2 DEF TxnOK, k
          <5> QED
            BY <5>1 DEF Unused
        <4>3. txns[k] \in TxnType
          BY <1>1, LogTyped DEF k
        <4> QED
          BY <4>1, <4>2, <4>3 DEF TxnType
      <3>2. txns[i].purpose = "save" /\ Unused(i) /\ Alone(i) => Unused(i)'
        BY <1>1, <1>4, <3>1 DEF Unused, SameRow, k
      <3>3. SameRow(txns'[i], txns[i])
        BY <1>1 DEF k
      <3> QED
        BY <1>2, <1>5, <1>6, <1>8, <2>1, <2>3, <3>2, <3>3 DEF SaveOK, SameRow
    <2> QED
      BY <1>3, <1>8, <2>2, <2>3 DEF k
  <1> QED
    BY <1>7, <1>8

-----------------------------------------------------------------------------
(* The steps of the store.                                                   *)

SameStore == UNCHANGED <<env, revisions, txns, desired, conflict, disk, touched, edits>>

(* Everything but the store.                                                 *)
LEMMA ElsewhereStore ==
  ASSUME Typed, StoreInv, SameStore,
         ctl' = ctl \/ (Idle /\ ctl # "down" /\ ctl' # "down")
  PROVE  StoreInv'
  <1>1. LogOK'
    BY LogSame DEF StoreInv, SameStore, Grows
  <1>2. SavesOK'
    <2>1. SameRows /\ \A i \in 1..Len(txns) : txns'[i].state = txns[i].state
      BY DEF SameRows, SameRow, SameStore
    <2> QED
      BY <2>1, SavesKept DEF StoreInv, SameStore
  <1>3. DiskOK'
    BY DEF StoreInv, SameStore, DiskOK, Idle, Pending, LastTxn
  <1>4. EnvOK'
    BY DEF StoreInv, SameStore, EnvOK, DiskOK, Idle, Intact, LastTxn, ContentOf, Replaced
  <1>5. FileOK'
    BY DEF StoreInv, SameStore, FileOK, DiskOK, Idle, Intact, LastTxn, ContentOf,
           Replaced, Pending
  <1> QED
    BY <1>1, <1>2, <1>3, <1>4, <1>5 DEF StoreInv

(* With the store at rest and nobody editing, an import finds nothing.       *)
LEMMA ImportRest ==
  ASSUME Typed, StoreInv, Idle, ctl # "down", ctl' = ctl,
         Import(desired), UNCHANGED <<env, txns, disk, edits>>
  PROVE  StoreInv'
  <1>1. /\ Grows /\ touched' = FALSE
        /\ env = revisions'[desired'].content \/ conflict'
        /\ env = ContentOf(desired) => revisions' = revisions /\ desired' = desired
    BY ImportEffect, LogTyped
  <1>2. ~Pending
    BY DEF StoreInv, DiskOK
  <1>3. LogOK'
    BY <1>1, LogSame DEF StoreInv
  <1>4. edits = 0 => revisions' = revisions /\ desired' = desired
    BY <1>1, <1>2 DEF StoreInv, FileOK, Intact
  <1>5. SavesOK'
    <2>1. SameRows /\ \A i \in 1..Len(txns) : txns'[i].state = txns[i].state
      BY DEF SameRows, SameRow
    <2>2. CASE edits = 0
      BY <1>4, <2>1, <2>2, SavesKept DEF StoreInv
    <2>3. CASE edits # 0
      BY <2>3 DEF SavesOK
    <2> QED
      BY <2>2, <2>3
  <1>6. DiskOK'
    BY <1>2 DEF StoreInv, DiskOK, Idle, Pending, LastTxn
  <1>7. EnvOK'
    BY <1>1 DEF EnvOK, Intact, ContentOf, Idle, Replaced
  <1>8. FileOK'
    BY <1>1, <1>2, <1>4 DEF StoreInv, FileOK, Intact, ContentOf, Pending, LastTxn
  <1> QED
    BY <1>3, <1>5, <1>6, <1>7, <1>8 DEF StoreInv

(* save or restore logs what it is going to do.                              *)
LEMMA PreparedStore ==
  ASSUME Typed, StoreInv, Idle, ctl \in {"up", "recovering", "restoring"},
         ctl' = ctl, Intact, Grows, NEW x, txns' = Append(txns, x),
         UNCHANGED <<env, desired, conflict, touched, edits>>,
         x.state = "PREPARED", x.expected = desired, x.before = env,
         revisions'[x.rev].content = x.after,
         \/ /\ x.purpose = "save" /\ disk' = "save_prepared"
            /\ x.rev = Len(revisions) + 1
         \/ /\ x.purpose = "rollback" /\ disk' = "undo_prepared"
            /\ x.of \in 1..Len(txns) /\ txns[x.of].purpose = "save"
            /\ txns[x.of].rev = x.expected /\ txns[x.of].expected = x.rev
  PROVE  StoreInv'
  <1>1. ~Pending /\ desired \in 1..Len(revisions)
    BY LogTyped DEF StoreInv, DiskOK
  <1>2. revisions'[desired].content = env
    BY <1>1 DEF Grows, Intact, ContentOf
  <1>3. LogOK'
    BY <1>1, <1>2, LogAppended DEF StoreInv
  <1>4. SavesOK'
    BY SavesAppended DEF StoreInv
  <1>5. txns' # <<>> /\ LastTxn' = x
    BY AppendRow
  <1>6. DiskOK'
    BY <1>5 DEF DiskOK, Idle, Pending, Saving, Undoing
  <1>7. EnvOK' /\ FileOK'
    BY <1>2, <1>5 DEF StoreInv, EnvOK, FileOK, Intact, ContentOf, Replaced
  <1> QED
    BY <1>3, <1>4, <1>6, <1>7 DEF StoreInv

LEMMA SaveBeginStore ==
  ASSUME Typed, StoreInv, NEW c \in Content, SaveBegin(c)
  PROVE  StoreInv'
  <1>1. /\ Idle /\ ctl = "up" /\ ctl' = ctl
        /\ UNCHANGED <<env, edits>>
    BY DEF SaveBegin, procVars, Free, Idle
  <1>2. CASE ~Intact
    BY <1>1, <1>2, ImportRest DEF SaveBegin
  <1>3. CASE Intact
    <2> DEFINE x == [state |-> "PREPARED", purpose |-> "save", expected |-> desired,
                     rev |-> Len(revisions) + 1, before |-> env, after |-> c,
                     of |-> 0]
    <2>1. /\ txns' = Append(txns, x) /\ disk' = "save_prepared"
          /\ UNCHANGED <<desired, conflict, touched>>
      BY <1>3 DEF SaveBegin
    <2>2. PICK z \in Scopes :
            revisions' = Append(revisions, [content |-> c, scope |-> z])
      BY <1>3 DEF SaveBegin
    <2>3. Grows /\ revisions'[Len(revisions) + 1].content = c
      BY <2>2, LogTyped DEF Grows
    <2>4. /\ x.state = "PREPARED" /\ x.expected = desired /\ x.before = env
          /\ x.after = c /\ x.rev = Len(revisions) + 1 /\ x.purpose = "save"
      OBVIOUS
    <2> HIDE DEF x
    <2> QED
      BY <1>1, <1>3, <2>1, <2>3, <2>4, PreparedStore
  <1> QED
    BY <1>2, <1>3

LEMMA UndoBeginStore ==
  ASSUME Typed, StoreInv, NEW r \in Nat, UndoBegin(r), Idle,
         ctl \in {"up", "recovering", "restoring"}, ctl' = ctl,
         UNCHANGED <<env, edits>>
  PROVE  StoreInv'
  <1>1. CASE UNCHANGED <<revisions, txns, desired, conflict, touched, disk>>
    BY <1>1, ElsewhereStore DEF SameStore
  <1>2. ASSUME NEW i \in SavesOf(r), desired = r, env # txns[i].after,
               Import(desired), UNCHANGED <<txns, disk>>
        PROVE  StoreInv'
    BY <1>2, ImportRest
  <1>3. ASSUME NEW i \in SavesOf(r), desired = r, env = txns[i].after,
               txns' = Append(txns,
                    [state |-> "PREPARED", purpose |-> "rollback",
                     expected |-> r, rev |-> txns[i].expected,
                     before |-> env, after |-> txns[i].before, of |-> i]),
               disk' = "undo_prepared",
               UNCHANGED <<revisions, desired, conflict, touched>>
        PROVE  StoreInv'
    <2> DEFINE x == [state |-> "PREPARED", purpose |-> "rollback",
                     expected |-> r, rev |-> txns[i].expected,
                     before |-> env, after |-> txns[i].before, of |-> i]
    <2>1. i \in 1..Len(txns) /\ txns[i].rev = r /\ txns[i].purpose = "save"
      BY DEF SavesOf
    <2>2. TxnOK(txns, revisions, i)
      BY <2>1 DEF StoreInv, LogOK
    <2>3. Intact /\ Grows
      BY <1>3, <2>1, <2>2 DEF TxnOK, Intact, ContentOf, Grows
    <2>4. revisions'[txns[i].expected].content = txns[i].before
      BY <1>3, <2>2 DEF TxnOK
    <2>5. /\ x.state = "PREPARED" /\ x.expected = desired /\ x.before = env
          /\ x.after = txns[i].before /\ x.rev = txns[i].expected
          /\ x.purpose = "rollback" /\ x.of = i
      BY <1>3
    <2>6. txns' = Append(txns, x)
      BY <1>3
    <2> HIDE DEF x
    <2> QED
      BY <1>3, <2>1, <2>3, <2>4, <2>5, <2>6, PreparedStore
  <1> QED
    BY <1>1, <1>2, <1>3 DEF UndoBegin

(* A row that ends in CONFLICT: the file was edited.                         *)
LEMMA ConflictStore ==
  ASSUME Typed, StoreInv, ~Idle, Mark("CONFLICT"), disk' = "idle", ctl' = ctl,
         UNCHANGED <<env, revisions, desired, conflict, touched, edits>>,
         touched \/ (conflict /\ edits # 0)
  PROVE  StoreInv'
  <1>1. Pending /\ ctl # "down"
    BY DEF StoreInv, DiskOK
  <1>2. SameRows /\ txns' # <<>> /\ LastTxn'.state = "CONFLICT"
    BY <1>1, MarkLast DEF Pending, TxnStates
  <1>3. LogOK'
    BY <1>1, LogMarked DEF StoreInv, Pending, TxnStates, Grows
  <1>4. edits # 0
    BY DEF StoreInv, FileOK
  <1>5. SavesOK' /\ FileOK'
    BY <1>4 DEF StoreInv, SavesOK, FileOK
  <1>6. DiskOK'
    BY <1>1, <1>2 DEF DiskOK, Idle, Pending, Saving, Undoing
  <1>7. EnvOK'
    BY DEF EnvOK, Replaced
  <1> QED
    BY <1>3, <1>5, <1>6, <1>7 DEF StoreInv

LEMMA SaveCheckStore ==
  ASSUME Typed, StoreInv, SaveCheck
  PROVE  StoreInv'
  <1>1. /\ disk = "save_prepared" /\ ~Idle /\ ctl' = ctl
        /\ UNCHANGED <<env, revisions, desired, conflict, touched, edits>>
    BY DEF SaveCheck, Idle, procVars, history
  <1>2. Pending /\ ctl # "down" /\ LastTxn.expected = desired
    BY <1>1 DEF StoreInv, DiskOK
  <1>3. CASE Intact
    <2>1. disk' = "save_checked" /\ txns' = txns
      BY <1>3 DEF SaveCheck
    <2>2. LogOK'
      BY <1>1, <2>1, LogSame DEF StoreInv, Grows
    <2>3. SavesOK'
      <3>1. SameRows /\ \A i \in 1..Len(txns) : txns'[i].state = txns[i].state
        BY <2>1 DEF SameRows, SameRow
      <3> QED
        BY <1>1, <3>1, SavesKept DEF StoreInv
    <2>4. DiskOK'
      BY <1>1, <2>1 DEF StoreInv, DiskOK, Idle, Pending, LastTxn, Saving, Undoing
    <2>5. EnvOK' /\ FileOK'
      BY <1>1, <1>2, <1>3, <2>1 DEF StoreInv, EnvOK, FileOK, Intact, ContentOf, Replaced,
                                  Pending, LastTxn
    <2> QED
      BY <2>2, <2>3, <2>4, <2>5 DEF StoreInv
  <1>4. CASE ~Intact
    <2>1. disk' = "idle" /\ Mark("CONFLICT")
      BY <1>4 DEF SaveCheck
    <2>2. conflict \/ touched
      BY <1>1, <1>2, <1>4 DEF StoreInv, EnvOK, Replaced
    <2>3. edits # 0
      <3>1. Len(txns) \in 1..Len(txns)
        BY <1>2, LogTyped DEF Pending
      <3>2. ContentOf(desired) = LastTxn.before
        BY <1>2, <3>1 DEF StoreInv, LogOK, TxnOK, LastTxn, ContentOf
      <3> QED
        BY <1>1, <1>2, <1>4, <3>2 DEF StoreInv, FileOK, Intact, Replaced
    <2> QED
      BY <1>1, <2>1, <2>2, <2>3, ConflictStore
  <1> QED
    BY <1>3, <1>4

LEMMA ReplaceStore ==
  ASSUME Typed, StoreInv, Replace
  PROVE  StoreInv'
  <1>1. /\ disk \in {"save_checked", "undo_prepared"} /\ ~Idle /\ ctl' = ctl
        /\ env' = LastTxn.after
        /\ disk' = IF disk = "save_checked" THEN "save_replaced" ELSE "undo_replaced"
        /\ UNCHANGED <<revisions, txns, desired, conflict, touched, edits>>
    BY DEF Replace, Idle, dbVars, procVars, history
  <1>2. Pending /\ ctl # "down"
    BY <1>1 DEF StoreInv, DiskOK
  <1>3. LogOK'
    BY <1>1, LogSame DEF StoreInv, Grows
  <1>4. SavesOK'
    <2>1. SameRows /\ \A i \in 1..Len(txns) : txns'[i].state = txns[i].state
      BY <1>1 DEF SameRows, SameRow
    <2> QED
      BY <1>1, <2>1, SavesKept DEF StoreInv
  <1>5. LastTxn' = LastTxn /\ Pending'
    BY <1>1, <1>2 DEF LastTxn, Pending
  <1>6. DiskOK'
    BY <1>1, <1>2, <1>5 DEF StoreInv, DiskOK, Idle, Saving, Undoing
  <1>7. EnvOK' /\ FileOK'
    BY <1>1, <1>5 DEF StoreInv, EnvOK, FileOK, Replaced
  <1> QED
    BY <1>3, <1>4, <1>6, <1>7 DEF StoreInv

(* The open row is decided and .env is what the database says.               *)
LEMMA DecidedStore ==
  ASSUME Typed, StoreInv, Pending, NEW v \in {"COMMITTED", "ABORTED"}, Decides(v),
         \A i \in 1..Len(txns) : txns'[i].state # "PREPARED",
         UNCHANGED <<env, revisions, edits>>, touched' = FALSE,
         disk' = "idle", ctl' # "down",
         env = IF v = "COMMITTED" THEN LastTxn.after ELSE LastTxn.before
  PROVE  StoreInv'
  <1>1. LastTxn.expected = desired /\ Len(txns) \in 1..Len(txns)
    BY LogTyped DEF StoreInv, DiskOK, Pending
  <1>2. LogOK'
    BY LogKept DEF StoreInv, Decides, Grows
  <1>3. SavesOK'
    BY <1>1, SavesDecided DEF StoreInv
  <1>4. Intact'
    <2>1. TxnOK(txns, revisions, Len(txns))
      BY <1>1 DEF StoreInv, LogOK
    <2> QED
      BY <1>1, <2>1 DEF TxnOK, Decides, Intact, ContentOf, LastTxn
  <1>5. ~Pending'
    BY <1>1 DEF Pending, LastTxn, Decides, SameRows
  <1>6. DiskOK'
    BY <1>5 DEF DiskOK, Idle, Saving, Undoing
  <1>7. EnvOK' /\ FileOK'
    BY <1>4, <1>5 DEF StoreInv, EnvOK, FileOK, Replaced
  <1> QED
    BY <1>2, <1>3, <1>6, <1>7 DEF StoreInv

LEMMA SaveCommitStore ==
  ASSUME Typed, StoreInv, SaveCommit
  PROVE  StoreInv'
  <1>1. /\ disk = "save_replaced" /\ ~Idle /\ ctl' = ctl /\ disk' = "idle"
        /\ UNCHANGED <<env, revisions, edits>>
    BY DEF SaveCommit, Settle, Idle, procVars
  <1>2. Pending /\ ctl # "down" /\ LastTxn.purpose = "save"
    BY <1>1 DEF StoreInv, DiskOK, Saving
  <1>3. CASE env = LastTxn.after
    <2>1. /\ Mark("COMMITTED") /\ desired' = LastTxn.rev /\ touched' = FALSE
      BY <1>3 DEF SaveCommit, Settle, Mark
    <2>2. Decides("COMMITTED") /\ \A i \in 1..Len(txns) : txns'[i].state # "PREPARED"
      <3>1. /\ SameRows
            /\ \A i \in 1..Len(txns) :
                 txns'[i].state = IF i = Len(txns) THEN "COMMITTED" ELSE txns[i].state
        BY <1>2, <2>1, MarkLast DEF Pending, TxnStates
      <3>2. \A i \in 1..Len(txns) : i # Len(txns) => txns[i].state # "PREPARED"
        BY DEF StoreInv, LogOK, TxnOK
      <3>3. Len(txns) \in 1..Len(txns)
        BY <1>2, LogTyped DEF Pending
      <3> QED
        BY <2>1, <3>1, <3>2, <3>3 DEF Decides
    <2> QED
      BY <1>1, <1>2, <1>3, <2>1, <2>2, DecidedStore
  <1>4. CASE env # LastTxn.after
    <2>1. Mark("CONFLICT") /\ UNCHANGED <<desired, conflict, touched>>
      BY <1>4 DEF SaveCommit, Settle
    <2>2. touched
      BY <1>1, <1>4 DEF StoreInv, EnvOK, Replaced
    <2> QED
      BY <1>1, <2>1, <2>2, ConflictStore
  <1> QED
    BY <1>3, <1>4

LEMMA UndoCommitStore ==
  ASSUME Typed, StoreInv, UndoCommit
  PROVE  StoreInv'
  <1>1. /\ disk = "undo_replaced" /\ ~Idle /\ ctl' = ctl /\ disk' = "idle"
        /\ UNCHANGED <<env, revisions, edits>>
    BY DEF UndoCommit, Settle, Idle, procVars
  <1>2. Pending /\ ctl # "down" /\ LastTxn.purpose = "rollback"
    BY <1>1 DEF StoreInv, DiskOK, Undoing
  <1>3. CASE env = LastTxn.after
    <2> DEFINE k == Len(txns)
               mid == [txns EXCEPT ![k].state = "COMMITTED"]
               o == LastTxn.of
    <2>1. /\ txns' = [txns EXCEPT ![k].state = "COMMITTED", ![o].state = "ROLLED_BACK"]
          /\ desired' = LastTxn.rev /\ touched' = FALSE
      BY <1>3 DEF UndoCommit, Settle
    <2>2. txns \in Seq(TxnType) /\ k \in 1..k /\ k \in Nat
      BY <1>2, LogTyped DEF Pending
    <2>3. o \in 1..(k - 1) /\ o \in 1..k /\ o # k
      <3>1. o \in 1..(k - 1)
        BY <1>2, <2>2 DEF StoreInv, LogOK, TxnOK, LastTxn
      <3> QED
        BY <2>2, <3>1
    <2>4. /\ mid \in Seq(TxnType) /\ Len(mid) = k
          /\ \A i \in 1..k : /\ SameRow(mid[i], txns[i])
                             /\ mid[i].state = IF i = k THEN "COMMITTED" ELSE txns[i].state
      BY <2>2, MarkRows DEF TxnStates
    <2>5. txns' = [mid EXCEPT ![o].state = "ROLLED_BACK"]
      BY <2>1
    <2>6. /\ Len(txns') = k
          /\ \A i \in 1..k :
               /\ SameRow(txns'[i], mid[i])
               /\ txns'[i].state = IF i = o THEN "ROLLED_BACK" ELSE mid[i].state
      <3>1. mid \in Seq(TxnType) /\ Len(mid) = k /\ o \in 1..Len(mid)
        BY <2>3, <2>4
      <3> HIDE DEF mid, k, o
      <3>2. LET us == [mid EXCEPT ![o].state = "ROLLED_BACK"] IN
            /\ Len(us) = Len(mid)
            /\ \A i \in 1..Len(mid) :
                 /\ SameRow(us[i], mid[i])
                 /\ us[i].state = IF i = o THEN "ROLLED_BACK" ELSE mid[i].state
        BY <3>1, MarkRows DEF TxnStates
      <3> QED
        BY <2>5, <3>1, <3>2
    <2>7. Decides("COMMITTED")
      <3>1. SameRows
        BY <2>4, <2>6 DEF SameRows, SameRow
      <3>2. txns'[k].state = "COMMITTED" /\ desired' = LastTxn.rev
        BY <2>1, <2>2, <2>3, <2>4, <2>6
      <3>3. \A i \in 1..k : i # k /\ i # o => txns'[i].state = txns[i].state
        BY <2>4, <2>6
      <3>4. txns'[o].state = "ROLLED_BACK"
        BY <2>3, <2>6
      <3> HIDE DEF mid
      <3> QED
        BY <1>2, <3>1, <3>2, <3>3, <3>4 DEF Decides
    <2>8. \A i \in 1..Len(txns) : txns'[i].state # "PREPARED"
      <3>1. \A i \in 1..Len(txns) : i # Len(txns) => txns[i].state # "PREPARED"
        BY DEF StoreInv, LogOK, TxnOK
      <3> QED
        BY <2>4, <2>6, <3>1
    <2> QED
      BY <1>1, <1>2, <1>3, <2>1, <2>7, <2>8, DecidedStore
  <1>4. CASE env # LastTxn.after
    <2>1. Mark("CONFLICT") /\ UNCHANGED <<desired, conflict, touched>>
      BY <1>4 DEF UndoCommit, Settle
    <2>2. touched
      BY <1>1, <1>4 DEF StoreInv, EnvOK, Replaced
    <2> QED
      BY <1>1, <2>1, <2>2, ConflictStore
  <1> QED
    BY <1>3, <1>4

(* The controller starts: the file decides a transaction that was left open, *)
(* and an edited file is imported.                                           *)
LEMMA BootStoreStore ==
  ASSUME Typed, StoreInv, BootStore
  PROVE  StoreInv'
  <1>1. /\ ctl = "down" /\ ctl' = "deciding" /\ Idle /\ disk' = "idle"
        /\ UNCHANGED <<env, edits>>
    BY DEF BootStore, StoreInv, DiskOK, Idle
  <1>2. ASSUME NEW d \in 1..Len(revisions), Import(d)
        PROVE  /\ Grows /\ touched' = FALSE
               /\ env = revisions'[desired'].content \/ conflict'
               /\ env = ContentOf(d) => revisions' = revisions /\ desired' = d
    BY <1>2, ImportEffect
  (* What does not depend on the transaction. *)
  <1>3. ASSUME LogOK', SavesOK', Grows, touched' = FALSE, ~Pending',
               env = revisions'[desired'].content \/ conflict',
               edits = 0 => env = revisions'[desired'].content
        PROVE  StoreInv'
    <2>1. DiskOK'
      BY <1>1, <1>3 DEF DiskOK, Idle, Saving, Undoing
    <2>2. EnvOK'
      BY <1>1, <1>3 DEF EnvOK, Intact, ContentOf, Replaced
    <2>3. FileOK'
      BY <1>1, <1>3 DEF StoreInv, FileOK, Intact, ContentOf
    <2> QED
      BY <1>3, <2>1, <2>2, <2>3 DEF StoreInv
  <1>4. CASE ~Pending
    <2>1. Import(desired) /\ txns' = txns /\ desired \in 1..Len(revisions)
      BY <1>4, LogTyped DEF BootStore, Pending
    <2>2. /\ Grows /\ touched' = FALSE
          /\ env = revisions'[desired'].content \/ conflict'
          /\ env = ContentOf(desired) => revisions' = revisions /\ desired' = desired
      BY <1>2, <2>1
    <2>3. edits = 0 => revisions' = revisions /\ desired' = desired
                       /\ env = revisions'[desired'].content
      BY <1>4, <2>2 DEF StoreInv, FileOK, Intact, ContentOf
    <2>4. LogOK'
      BY <2>1, <2>2, LogSame DEF StoreInv
    <2>5. SavesOK'
      <3>1. SameRows /\ \A i \in 1..Len(txns) : txns'[i].state = txns[i].state
        BY <2>1 DEF SameRows, SameRow
      <3>2. CASE edits = 0
        BY <1>1, <2>3, <3>1, <3>2, SavesKept DEF StoreInv
      <3>3. CASE edits # 0
        BY <1>1, <3>3 DEF SavesOK
      <3> QED
        BY <3>2, <3>3
    <2>6. ~Pending'
      BY <1>4, <2>1 DEF Pending, LastTxn
    <2> QED
      BY <1>3, <2>2, <2>3, <2>4, <2>5, <2>6
  <1>5. CASE Pending
    <2> DEFINE v == Verdict
               d == IF Verdict = "COMMITTED" THEN LastTxn.rev ELSE desired
    <2>1. Mark(Verdict) /\ Import(d)
      BY <1>5 DEF BootStore, Pending
    <2>2. /\ Len(txns) \in 1..Len(txns) /\ LastTxn.expected = desired
          /\ d \in 1..Len(revisions)
          /\ TxnOK(txns, revisions, Len(txns))
      BY <1>5, LogTyped DEF StoreInv, DiskOK, LogOK, Pending, LastTxn
    <2>3. /\ Grows /\ touched' = FALSE
          /\ env = revisions'[desired'].content \/ conflict'
          /\ env = ContentOf(d) => revisions' = revisions /\ desired' = d
      BY <1>2, <2>1, <2>2
    <2>4. Verdict \in TxnStates \ {"PREPARED"}
      BY DEF Verdict, TxnStates
    <2>5. /\ SameRows /\ txns' # <<>> /\ LastTxn'.state = Verdict
          /\ \A i \in 1..Len(txns) :
               txns'[i].state = IF i = Len(txns) THEN Verdict ELSE txns[i].state
      BY <1>5, <2>1, <2>4, MarkLast DEF Pending
    <2>6. LogOK'
      BY <1>5, <2>1, <2>3, <2>4, LogMarked DEF StoreInv, Pending
    <2>7. ~Pending'
      BY <2>4, <2>5 DEF Pending
    <2>8. ASSUME edits = 0
          PROVE  /\ Verdict \in {"COMMITTED", "ABORTED"}
                 /\ env = ContentOf(d)
      <3>1. env \in {LastTxn.before, LastTxn.after}
        BY <1>5, <2>8 DEF StoreInv, FileOK
      <3>2. ContentOf(LastTxn.rev) = LastTxn.after
            /\ ContentOf(LastTxn.expected) = LastTxn.before
        BY <2>2 DEF TxnOK, ContentOf, LastTxn
      <3> QED
        BY <2>2, <3>1, <3>2 DEF Verdict
    <2>9. SavesOK'
      <3>1. CASE edits # 0
        BY <1>1, <3>1 DEF SavesOK
      <3>2. CASE edits = 0
        <4>1. Verdict \in {"COMMITTED", "ABORTED"} /\ desired' = d
          BY <2>3, <2>8, <3>2
        <4>2. Decides(Verdict)
          BY <2>2, <2>5, <4>1 DEF Decides
        <4> QED
          BY <1>1, <1>5, <2>2, <4>1, <4>2, SavesDecided DEF StoreInv
      <3> QED
        BY <3>1, <3>2
    <2>10. edits = 0 => env = revisions'[desired'].content
      BY <2>3, <2>8 DEF ContentOf
    <2> QED
      BY <1>3, <2>3, <2>6, <2>7, <2>9, <2>10
  <1> QED
    BY <1>4, <1>5

(* The controller is gone, wherever the store procedure was.                 *)
LEMMA GoneStore ==
  ASSUME Typed, StoreInv, Gone, ctl # "down",
         UNCHANGED <<env, revisions, txns, desired, conflict, touched, edits>>
  PROVE  StoreInv'
  <1>1. ctl' = "down" /\ disk' = "idle"
    BY DEF Gone
  <1>2. LogOK'
    BY LogSame DEF StoreInv, Grows
  <1>3. SavesOK'
    <2>1. SameRows /\ \A i \in 1..Len(txns) : txns'[i].state = txns[i].state
      BY DEF SameRows, SameRow
    <2> QED
      BY <2>1, SavesKept DEF StoreInv
  <1>4. LastTxn' = LastTxn /\ (Pending' <=> Pending)
    BY DEF LastTxn, Pending
  <1>5. DiskOK'
    BY <1>1, <1>4 DEF StoreInv, DiskOK, Idle, Saving, Undoing
  <1>6. EnvOK' /\ FileOK'
    BY <1>1, <1>4 DEF StoreInv, EnvOK, FileOK, Intact, ContentOf, Replaced
  <1> QED
    BY <1>2, <1>3, <1>5, <1>6 DEF StoreInv

LEMMA EditStore ==
  ASSUME Typed, StoreInv, NEW c \in Content, Edit(c)
  PROVE  StoreInv'
  <1>1. /\ touched' = TRUE /\ edits' = edits + 1
        /\ UNCHANGED <<revisions, txns, desired, conflict, disk, ctl>>
    BY DEF Edit, dbVars, procVars
  <1>2. edits' \in Nat /\ edits' # 0
    BY <1>1 DEF StoreInv, FileOK
  <1>3. LogOK'
    BY <1>1, LogSame DEF StoreInv, Grows
  <1>4. DiskOK'
    BY <1>1 DEF StoreInv, DiskOK, Idle, Pending, LastTxn
  <1>5. EnvOK'
    BY <1>1 DEF EnvOK
  <1> QED
    BY <1>2, <1>3, <1>4, <1>5 DEF StoreInv, SavesOK, FileOK

-----------------------------------------------------------------------------
(* Every step                                                                *)

(* Actions that never touch the store and only run between its procedures.   *)
LEMMA OthersSame ==
  ASSUME Typed, StoreInv,
         \/ \E k \in Kinds : Accept(k)
         \/ StopRun \/ StopDone \/ StartRun \/ StartDone
         \/ Prepare \/ Drain \/ Drained \/ Stopped \/ Verify
         \/ StartPrevious \/ PreviousDone
         \/ CommitApplied \/ CommitWanted \/ CommitPhase
         \/ Decide(TRUE) \/ Decide(FALSE) \/ BootPrevious \/ Launch \/ Finalize
         \/ CoreStep \/ DrainFails \/ CoreFails
  PROVE  SameStore /\ (ctl' = ctl \/ (Idle /\ ctl # "down" /\ ctl' # "down"))
  <1>1. ctl \in {"deciding", "launching", "launched"} => Idle
    BY DEF StoreInv, DiskOK
  <1>2. CASE \E k \in Kinds : Accept(k)
    BY <1>2 DEF Accept, SameStore, dbVars, history
  <1>3. CASE StopRun \/ StopDone \/ StartRun \/ StartDone
    BY <1>3 DEF StopRun, StopDone, StartRun, StartDone, SameStore, dbVars, procVars,
                history
  <1>4. CASE Prepare \/ Drain \/ Drained \/ Verify \/ StartPrevious
    BY <1>4 DEF Prepare, Drain, Drained, Verify, StartPrevious, SameStore,
                dbVars, procVars, history
  <1>5. CASE CommitApplied \/ CommitWanted \/ CommitPhase
    BY <1>5 DEF CommitApplied, CommitWanted, CommitPhase, SameStore, dbVars, history
  <1>6. CASE Stopped \/ PreviousDone
    BY <1>6 DEF Stopped, PreviousDone, UpAgain, At, Free, Idle, SameStore, dbVars, procVars,
                history
  <1>7. CASE Decide(TRUE) \/ Decide(FALSE)
    BY <1>1, <1>7 DEF Decide, Fault, SameStore, dbVars
  <1>8. CASE BootPrevious \/ Launch \/ Finalize
    <2>1. CASE BootPrevious
      BY <2>1 DEF BootPrevious, Free, Idle, SameStore, dbVars, history
    <2>2. CASE Launch
      BY <1>1, <2>2 DEF Launch, SameStore, dbVars, history
    <2>3. CASE Finalize
      <3>1. ctl = "launched" /\ SameStore
        BY <2>3 DEF Finalize, SameStore, dbVars, history
      <3>2. ctl' \in {"up", "recovering"}
        BY <2>3 DEF Finalize
      <3> QED
        BY <1>1, <3>1, <3>2
    <2> QED
      BY <1>8, <2>1, <2>2, <2>3
  <1>9. CASE CoreStep \/ DrainFails \/ CoreFails
    BY <1>9 DEF CoreStep, CoreReady, BackoffEnds, DrainFails, CoreFails, Fault, SameStore,
                dbVars, procVars, history
  <1> QED
    BY <1>2, <1>3, <1>4, <1>5, <1>6, <1>7, <1>8, <1>9

LEMMA NextStore ==
  ASSUME IInv, StoreInv, [Next]_vars
  PROVE  StoreInv'
  <1>0. Typed
    BY DEF IInv
  <1>1. ASSUME NEW c \in Content, SaveBegin(c) PROVE StoreInv'
    BY <1>0, <1>1, SaveBeginStore
  <1>2. ASSUME NEW c \in Content, Edit(c) PROVE StoreInv'
    BY <1>0, <1>2, EditStore
  <1>3. CASE Store
    BY <1>0, <1>3, SaveCheckStore, ReplaceStore, SaveCommitStore, UndoCommitStore DEF Store
  <1>4. CASE Restore \/ BootRestore
    <2>1. /\ UndoBegin(op.target) /\ Idle /\ ctl' = ctl /\ UNCHANGED <<env, edits>>
          /\ ctl \in {"up", "recovering", "restoring"}
      BY <1>0, <1>4 DEF Restore, BootRestore, At, Free, Idle
    <2>2. ops # <<>>
      BY <1>4 DEF Restore, BootRestore, At, IInv, Ahead, BootOK
    <2>3. op.target \in Nat
      BY <1>0, <2>2, Latest DEF OpType
    <2> QED
      BY <1>0, <2>1, <2>3, UndoBeginStore
  <1>5. CASE BootStore
    BY <1>0, <1>5, BootStoreStore
  <1>6. CASE Leave
    BY <1>0, <1>6, GoneStore DEF Leave, dbVars, history
  <1>7. CASE Crash
    BY <1>0, <1>7, GoneStore DEF Crash, dbVars, Fault
  <1>8. CASE UNCHANGED vars
    BY <1>0, <1>8, ElsewhereStore DEF vars, dbVars, procVars, history, SameStore
  <1>9. CASE \/ \E k \in Kinds : Accept(k)
             \/ StopRun \/ StopDone \/ StartRun \/ StartDone
             \/ Prepare \/ Drain \/ Drained \/ Stopped \/ Verify
             \/ StartPrevious \/ PreviousDone
             \/ CommitApplied \/ CommitWanted \/ CommitPhase
             \/ Decide(TRUE) \/ Decide(FALSE) \/ BootPrevious \/ Launch \/ Finalize
             \/ CoreStep \/ DrainFails \/ CoreFails
    BY <1>0, <1>9, OthersSame, ElsewhereStore
  <1> QED
    BY <1>0, <1>1, <1>2, <1>3, <1>4, <1>5, <1>6, <1>7, <1>8, <1>9 DEF Next, Operation, Boot

LEMMA InitStore ==
  ASSUME Init
  PROVE  StoreInv
  <1>1. Len(txns) = 0 /\ desired = 1 /\ revisions[1].content = Initial
        /\ env = Initial /\ ctl = "down" /\ disk = "idle" /\ edits = 0 /\ ~touched
        /\ txns = <<>>
    BY DEF Init
  <1> QED
    BY <1>1 DEF StoreInv, LogOK, DiskOK, EnvOK, FileOK, SavesOK, Pending, Idle, Intact,
                ContentOf, Saving, Undoing, Replaced

-----------------------------------------------------------------------------
(* The file and the database agree, and the log tells the truth.             *)

THEOREM StoreInductive == Spec => []StoreInv
  <1>1. Init => StoreInv
    BY InitStore
  <1>2. Inv /\ StoreInv /\ [Next]_vars => StoreInv'
    BY NextStore DEF Inv
  <1> QED
    BY <1>1, <1>2, Inductive, PTL DEF Spec

(* Whatever step of save, of restore or of the recovery itself a crash cuts  *)
(* short: a controller that runs and is not in the middle of a store         *)
(* procedure finds the desired revision in .env, unless somebody edited it   *)
(* since, or the conflict is on record.                                      *)
THEOREM FileAgrees == Spec => []DesiredIsOnDisk
  <1>1. StoreInv => DesiredIsOnDisk
    BY DEF StoreInv, EnvOK, Replaced, DesiredIsOnDisk, Idle
  <1> QED
    BY <1>1, StoreInductive, PTL

(* Without external edits the log is the history of the file: every row is   *)
(* decided, a save is COMMITTED or ROLLED_BACK only if its revision came to  *)
(* be the desired one, and an ABORTED one never did.                         *)
THEOREM LogTellsTruth == Spec => []LogIsTrue
  <1>1. ASSUME Inv, StoreInv PROVE LogIsTrue
    <2> SUFFICES ASSUME edits = 0, ctl # "down", Idle, NEW i \in 1..Len(txns)
                 PROVE  /\ txns[i].state \notin {"PREPARED", "CONFLICT"}
                        /\ txns[i].purpose = "save" =>
                             /\ txns[i].state \in {"COMMITTED", "ROLLED_BACK"} =>
                                  \/ desired = txns[i].rev
                                  \/ \E j \in (i+1)..Len(txns) :
                                       /\ txns[j].expected = txns[i].rev
                                       /\ txns[j].state # "ABORTED"
                             /\ txns[i].state = "ABORTED" => desired # txns[i].rev
      BY DEF LogIsTrue, Idle
    <2>1. SaveOK(i) /\ TxnOK(txns, revisions, i) /\ ~Pending
      BY <1>1 DEF StoreInv, SavesOK, LogOK, DiskOK
    <2>2. txns[i].state # "PREPARED"
      <3>1. txns # <<>>
        BY <1>1, LogTyped DEF Inv, IInv
      <3> QED
        BY <2>1, <3>1 DEF TxnOK, Pending, LastTxn
    <2> QED
      BY <2>1, <2>2 DEF SaveOK, Seen, Unused
  <1> QED
    BY <1>1, StoreInductive, Inductive, PTL

=============================================================================
