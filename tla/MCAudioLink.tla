----------------------------- MODULE MCAudioLink -----------------------------
(* Instances of AudioLink for TLC. *)
EXTENDS AudioLink
=============================================================================
