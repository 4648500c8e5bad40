---------------------------- MODULE MCStateMachine ----------------------------
(***************************************************************************)
(* TLC instances of CameraStateMachine: the model is finite as it stands,  *)
(* so the configurations only choose the environment.                      *)
(***************************************************************************)
EXTENDS CameraStateMachine
=============================================================================
