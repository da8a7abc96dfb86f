------------------------------ MODULE MCPcmRing ------------------------------
(* A ring of three frames, packets shorter than, as long as and longer than it. *)
EXTENDS PcmRing

PacketLengths == 1 .. 5
PopLengths == {1, 2, 4}
=============================================================================
