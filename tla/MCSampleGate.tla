---------------------------- MODULE MCSampleGate ----------------------------
(***************************************************************************)
(* SampleGate for one engine, one review and one narrative that share two  *)
(* slots: any two of them can be in flight while the third waits.          *)
(***************************************************************************)
EXTENDS SampleGate
=============================================================================
