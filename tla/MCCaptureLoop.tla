---------------------------- MODULE MCCaptureLoop ----------------------------
(* A small instance of CaptureLoop for TLC. *)
EXTENDS CaptureLoop
=============================================================================
