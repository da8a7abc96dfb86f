---------------------------- MODULE MCScreenshot ----------------------------
(* A small instance of Screenshot for TLC. *)
EXTENDS Screenshot
=============================================================================
