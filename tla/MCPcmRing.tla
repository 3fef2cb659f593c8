------------------------------ MODULE MCPcmRing ------------------------------
(* Instances of PcmRing for TLC. *)
EXTENDS PcmRing

\* The last target is larger than the ring.
TwoTargets == <<2, 6>>
=============================================================================
