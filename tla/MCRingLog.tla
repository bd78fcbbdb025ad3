----------------------------- MODULE MCRingLog ------------------------------
(* Instances of RingLog and LogFiles for TLC.                              *)
EXTENDS LogFiles, TLC
=============================================================================
