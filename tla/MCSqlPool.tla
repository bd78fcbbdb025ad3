----------------------------- MODULE MCSqlPool -----------------------------
(* Instances of SqlPool and Registration for TLC.                          *)
EXTENDS Registration, TLC

CONSTANTS ann, bob, p

(* Ann is a user already.                                                  *)
OnlyAnn == <<[name |-> ann, password |-> p]>>
=============================================================================
