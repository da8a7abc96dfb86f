---------------------------- MODULE MCAudioOutput ----------------------------
(* A small instance of AudioOutput for TLC. *)
EXTENDS AudioOutput
=============================================================================
