-------------------------- MODULE DeliveryContract --------------------------
(***************************************************************************)
(* What outbound delivery promises to its callers and to the people in a   *)
(* chat, with no lanes, quotas, bindings or clocks: the messages of a      *)
(* delivery reach the target in order, none twice, and with none of        *)
(* another delivery in between; the caller is answered at most once, the   *)
(* answer says what was taken, and nothing is taken after it.              *)
(***************************************************************************)
EXTENDS Naturals, Sequences

CONSTANTS
  Delivery, Target,
  Size,        \* Size[d]: the number of messages of d
  Unsaid

VARIABLES
  to,          \* the target of a delivery
  stage,       \* waiting, sending, or over
  taken,       \* the messages of a delivery that the platform took, in order
  answer       \* what the caller was told, or Unsaid

vars == <<to, stage, taken, answer>>

Init ==
  /\ to \in [Delivery -> Target]
  /\ stage = [d \in Delivery |-> "waiting"]
  /\ taken = [d \in Delivery |-> <<>>]
  /\ answer = [d \in Delivery |-> Unsaid]

WithNext(d) == Append(taken[d], Len(taken[d]) + 1)

(* A delivery begins when its target is nobody else's.                      *)
Begin(d) ==
  /\ stage[d] = "waiting"
  /\ \A e \in Delivery : to[e] = to[d] => stage[e] # "sending"
  /\ stage' = [stage EXCEPT ![d] = "sending"]
  /\ UNCHANGED <<taken, answer>>

(* The platform takes the next message, and it is not the last.             *)
Take(d) ==
  /\ stage[d] = "sending" /\ Len(taken[d]) + 1 < Size[d]
  /\ taken' = [taken EXCEPT ![d] = WithNext(d)]
  /\ UNCHANGED <<stage, answer>>

(* What may be said of a delivery of which n messages were taken.           *)
Truths(d, n) ==
  {said \in {"accepted", "partial", "failed", "expired", "unknown"} :
     /\ said = "accepted" => n = Size[d]
     /\ said = "partial" => n > 0
     /\ said \in {"failed", "expired"} => n = 0}

(* The delivery is over; the platform may take the message in hand.         *)
Finish(d) ==
  /\ stage[d] # "over"
  /\ stage' = [stage EXCEPT ![d] = "over"]
  /\ \/ taken' = taken
     \/ /\ stage[d] = "sending" /\ Len(taken[d]) < Size[d]
        /\ taken' = [taken EXCEPT ![d] = WithNext(d)]

Answer(d) ==
  /\ Finish(d)
  /\ \E said \in Truths(d, Len(taken'[d])) : answer' = [answer EXCEPT ![d] = said]

(* The caller is gone before the answer.                                    *)
Abandon(d) == Finish(d) /\ UNCHANGED answer

Next ==
  /\ to' = to
  /\ \E d \in Delivery : Begin(d) \/ Take(d) \/ Answer(d) \/ Abandon(d)

Spec == Init /\ [][Next]_vars
=============================================================================
