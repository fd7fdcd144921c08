---------------------------- MODULE MCVideoTask -----------------------------
(* Three processes, two requests and two remote ids: one more id than a      *)
(* correct provider can use.  No symmetry: liveness is checked.              *)
EXTENDS VideoTask
=============================================================================
