---------------------------- MODULE MCLiveSensor ----------------------------
(***************************************************************************)
(* Small instances of LiveSensor for TLC.                                  *)
(***************************************************************************)
EXTENDS LiveSensor
=============================================================================
