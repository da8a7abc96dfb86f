------------------------- MODULE MCRecordingStorage -------------------------
(* A small instance of RecordingStorage for TLC. *)
EXTENDS RecordingStorage

OneOrTwo == {1, 2}
=============================================================================
