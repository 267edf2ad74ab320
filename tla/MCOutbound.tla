----------------------------- MODULE MCOutbound -----------------------------
(* Small instances of Outbound for TLC.                                      *)
EXTENDS Outbound

CONSTANTS s1, s2, s3, ta, tb, all, one, two

(* s1 and s2 share a target; s3 goes there, too, or to another one.          *)
OneTarget == {[s \in Send |-> ta]}
SomeTargets == OneTarget \cup {[s \in Send |-> IF s = s3 THEN tb ELSE ta]}

FirstInTwo == [s \in Send |-> IF s = s1 THEN 2 ELSE 1]
SingleParts == [s \in Send |-> 1]

(* s2 has a deadline; s1 and s3 have none.                                   *)
SecondDeadlined == [s \in Send |-> IF s = s2 THEN 1 ELSE None]
FirstDeadlined == [s \in Send |-> IF s = s1 THEN 2 ELSE None]

NoExplicit == [s \in Send |-> None]

(* `all` is a bucket of the connection, `one` and `two` are buckets of the   *)
(* scenes ta and tb.                                                         *)
Buckets == [t \in Target |-> IF t = ta THEN {all, one} ELSE {all, two}]
NoBuckets == [t \in Target |-> {}]
Limits == [b \in Bucket |-> IF b = all THEN 2 ELSE 1]
Windows == [b \in Bucket |-> IF b = all THEN 2 ELSE 1]
=============================================================================
