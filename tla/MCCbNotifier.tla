----------------------------- MODULE MCCbNotifier -----------------------------
(***************************************************************************)
(* TLC instances of CbNotifier: its counters are bounded by constants, so  *)
(* the configurations give it their values and choose the environment.     *)
(***************************************************************************)
EXTENDS CbNotifier
=============================================================================
