--------------------------- MODULE MCVerification ---------------------------
(* Small instances of Verification for TLC. *)
EXTENDS Verification

CONSTANTS k1, k2, r1, r2

(* k1 is said in r1 and again in r2, where the batch may span both; k2 is    *)
(* said in r2 only.                                                          *)
Sources == [k \in Claim |-> IF k = k1 THEN {{r1}, {r1, r2}} ELSE {{r2}}]
=============================================================================
