--------------------------- MODULE ReportContract ---------------------------
(***************************************************************************)
(* What a table of outgoing messages promises, whoever works on it and     *)
(* whatever crashes on the way: the platform takes a message at most once, *)
(* its row ends at most once, and what the end says is true.  A row that   *)
(* ends without knowing leaves it open whether the platform still takes    *)
(* the message; one that says it was not sent does not.                    *)
(***************************************************************************)
EXTENDS Naturals

CONSTANT Message

VARIABLES
  copies,      \* how often the platform took a message
  verdict      \* open, or what its row says in the end

vars == <<copies, verdict>>

Verdict == {"open", "sent", "not_sent", "unknown"}

Init ==
  /\ copies = [m \in Message |-> 0]
  /\ verdict = [m \in Message |-> "open"]

Accept(m) ==
  /\ copies[m] = 0 /\ verdict[m] \in {"open", "unknown"}
  /\ copies' = [copies EXCEPT ![m] = 1]
  /\ verdict' = verdict

(* One transaction may end several rows.                                    *)
Report ==
  /\ copies' = copies
  /\ verdict' \in [Message -> Verdict]
  /\ \A m \in Message :
       \/ verdict'[m] = verdict[m]
       \/ /\ verdict[m] = "open"
          /\ verdict'[m] = "sent" => copies[m] = 1
          /\ verdict'[m] = "not_sent" => copies[m] = 0

Next == Report \/ \E m \in Message : Accept(m)

Spec == Init /\ [][Next]_vars
=============================================================================
