---------------------------- MODULE MCCaptureHub ----------------------------
(* Instances of CaptureHub for TLC. *)
EXTENDS CaptureHub

CONSTANTS s1, s2, s3
=============================================================================
