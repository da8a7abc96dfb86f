-------------------------- MODULE MCRecordingPause --------------------------
(* A small instance of RecordingPause for TLC: a PCM frame is 2.5 ticks, so  *)
(* that no packet boundary but every second one falls on a tick.            *)
EXTENDS RecordingPause

MCStartTimes   == {0, 3}
MCVideoSteps   == {4}
MCAudioPackets == {2, 3}
MCAudioGaps    == {0}
=============================================================================
