--------------------------- MODULE MCCameraDriver ---------------------------
(***************************************************************************)
(* The frame pipeline for TLC.  The constants are small numbers, so each   *)
(* configuration gives them directly; the interrupts' choices and the      *)
(* consumer's pauses are bounded by MaxReceived and MaxBacklog alone.      *)
(*                                                                         *)
(* MaxBacklog < QueueLen is the assumption that data_ready never fills: an *)
(* interrupt adds at most two entries to a queue shorter than MaxBacklog.  *)
(***************************************************************************)
EXTENDS CameraDriver
=============================================================================
