---------------------------- MODULE MCApiHandshake ----------------------------
(***************************************************************************)
(* TLC instances of ApiHandshake: callers are model values, and the        *)
(* configurations choose how many there are and what may fail.             *)
(***************************************************************************)
EXTENDS ApiHandshake
=============================================================================
