-------------------------- MODULE OperationContract --------------------------
(***************************************************************************)
(* What operations on the core promise to an operator, with no files,      *)
(* processes, drains, starts or crashes: operations are done one after the *)
(* other; while none is under way the revision in effect does not change;  *)
(* one that is under way may only bring its target into effect, or what    *)
(* was in effect when it was accepted, and may do so before it is          *)
(* answered; it is answered once, and the answer says what is in effect.   *)
(***************************************************************************)
EXTENDS Naturals, Sequences

CONSTANT First   \* the revision in effect before any operation

VARIABLES
  effect,      \* the revision in effect
  calls        \* the operations, oldest first: target, prev, stops, said

vars == <<effect, calls>>

Init == effect = First /\ calls = <<>>

Last == calls[Len(calls)]
Open == calls # <<>> /\ Last.said = "open"

(* An operation is accepted; `prev` is what is in effect then.              *)
Begin ==
  /\ ~Open
  /\ Len(calls') = Len(calls) + 1
  /\ \A i \in 1..Len(calls) : calls'[i] = calls[i]
  /\ calls'[Len(calls')].prev = effect /\ calls'[Len(calls')].said = "open"
  /\ effect' = effect

(* Its target is tried with success, or the previous revision is back.      *)
TakeEffect ==
  /\ Open
  /\ effect' \in {Last.target, Last.prev} /\ calls' = calls

Answer(said) ==
  /\ Open
  /\ said = "succeeded" /\ ~Last.stops => effect = Last.target
  /\ said = "rolled_back" => effect = Last.prev
  /\ calls' = [calls EXCEPT ![Len(calls)].said = said]
  /\ effect' = effect

Next ==
  Begin \/ TakeEffect \/ \E said \in {"succeeded", "rolled_back", "failed"} : Answer(said)

Spec == Init /\ [][Next]_vars
=============================================================================
