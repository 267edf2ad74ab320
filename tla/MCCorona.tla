------------------------------ MODULE MCCorona ------------------------------
(* Small instances of Corona for TLC.                                        *)
EXTENDS Corona

CONSTANTS c0, c1, junk
=============================================================================
