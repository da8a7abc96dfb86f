------------------------ MODULE MCRecordingSession ------------------------
(* Small instances of RecordingSession for TLC. *)
EXTENDS RecordingSession

OneEach     == [p \in Pins |-> 1]
OneByOne    == [p \in Pins |-> {1}]

\* Packets of each recording.
OneRecording  == <<OneEach>>
TwoRecordings == <<[p \in Pins |-> IF p = "audio" THEN 2 ELSE 1], OneEach>>
=============================================================================
