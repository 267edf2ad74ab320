--------------------------- MODULE MCCometaNotify ---------------------------
(* Small instances of CometaNotify for TLC. *)
EXTENDS CometaNotify
=============================================================================
