----------------------------- MODULE MCMuxSplit -----------------------------
(* Five pictures and three audio packets. *)
EXTENDS MuxSplit

MCPackets == [video |-> 5, audio |-> 3]
MCReorder == {0, 2}
MCGaps    == {1, 2}
=============================================================================
