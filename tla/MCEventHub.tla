----------------------------- MODULE MCEventHub -----------------------------
(* Small instances of EventHub for TLC.                                     *)
EXTENDS EventHub
=============================================================================
