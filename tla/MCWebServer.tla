---------------------------- MODULE MCWebServer ----------------------------
(* Instances of WebServer for TLC.                                         *)
EXTENDS WebServer, TLC

Symmetry == Permutations(Conns) \cup Permutations(Workers)
=============================================================================
