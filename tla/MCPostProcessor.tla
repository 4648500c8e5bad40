---------------------------- MODULE MCPostProcessor ----------------------------
(***************************************************************************)
(* TLC instances of PostProcessor: its counters are bounded by constants,  *)
(* so the configurations give it their values and choose what may happen.  *)
(***************************************************************************)
EXTENDS PostProcessor
=============================================================================
