-------------------------- MODULE MCSocialEffects ---------------------------
(* Small instances of SocialEffects for TLC.                                 *)
EXTENDS SocialEffects

CONSTANTS e1, e2, u1, u2

(* e1 answers u1, e2 speaks to the group.                                    *)
OneTarget == [e \in Effect |-> IF e = e1 THEN u1 ELSE None]
=============================================================================
