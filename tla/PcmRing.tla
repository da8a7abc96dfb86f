------------------------------- MODULE PcmRing -------------------------------
(***************************************************************************)
(* audio/PcmPipeline.cpp PcmRing: the frames between the capture callback  *)
(* (Push, PushConverted) and the output's fill callback (Pop), with the    *)
(* owner's Clear before an endpoint restarts.  Every operation holds the   *)
(* ring's mutex from end to end, so each is one step.  A frame is the      *)
(* number of its capture; how PushConverted converts it is pure data.      *)
(***************************************************************************)
EXTENDS Integers, Sequences

CONSTANTS
  CapacityFrames,      \* capacityFrames_
  PacketSizes,   \* frames of one Push
  PopSizes,      \* frames asked of one Pop
  MaxFrames      \* bound: frames pushed in a behaviour

ASSUME CapacityAssumption == CapacityFrames \in Nat \ {0}
ASSUME SizesAssumption ==
  PacketSizes \subseteq Nat \ {0} /\ PopSizes \subseteq Nat \ {0} /\ MaxFrames \in Nat

VARIABLES
  data, readFrame, writeFrame, available,
  packet, output,              \* the frames of the last Push and of the last Pop
  pushed, dropped, delivered, cleared   \* observation: what became of them

ringVars ==
  <<data, readFrame, writeFrame, available, packet, output, pushed, dropped, delivered, cleared>>

Slots == 0 .. CapacityFrames - 1
Smaller(a, b) == IF a <= b THEN a ELSE b

RingInit ==
  /\ data = [slot \in Slots |-> 0] /\ readFrame = 0 /\ writeFrame = 0 /\ available = 0
  /\ packet = <<>> /\ output = <<>>
  /\ pushed = 0 /\ dropped = 0 /\ delivered = 0 /\ cleared = 0

\* PrepareWrite: the frames that a packet of n pushes out, of the ring or, when
\* it is longer than the ring, of its own beginning.
Overrun(n) ==
  IF n >= CapacityFrames THEN available + n - CapacityFrames
  ELSE IF available + n > CapacityFrames THEN available + n - CapacityFrames ELSE 0

\* Wrong variant: a packet as long as the ring leaves the indices alone.
PreparedInPlace(n) ==
  [read |-> (readFrame + Overrun(n)) % CapacityFrames, write |-> writeFrame,
   kept |-> IF n >= CapacityFrames THEN 0 ELSE available - Overrun(n)]

\* The indices a packet is written at; a packet as long as the ring restarts it.
Prepared(n) ==
  IF n >= CapacityFrames
    THEN [read |-> 0, write |-> 0, kept |-> 0]
    ELSE [read |-> (readFrame + Overrun(n)) % CapacityFrames, write |-> writeFrame,
          kept |-> available - Overrun(n)]

\* At most two contiguous spans, the second from the start of the storage.
Written(start, frames) ==
  LET n == Len(frames)
      first == Smaller(n, CapacityFrames - start)
  IN  [slot \in Slots |->
         IF start <= slot /\ slot < start + first THEN frames[slot - start + 1]
         ELSE IF slot < n - first THEN frames[first + slot + 1]
         ELSE data[slot]]

Push ==
  \E n \in PacketSizes :
    LET p == Prepared(n)
        size == Smaller(n, CapacityFrames)
        frames == [i \in 1 .. size |-> pushed + (n - size) + i]
    IN  /\ pushed + n <= MaxFrames
        /\ packet' = [i \in 1 .. n |-> pushed + i] /\ output' = <<>>
        /\ data' = Written(p.write, frames)
        /\ readFrame' = p.read
        /\ writeFrame' = (p.write + size) % CapacityFrames
        /\ available' = p.kept + size
        /\ pushed' = pushed + n /\ dropped' = dropped + Overrun(n)
        /\ UNCHANGED <<delivered, cleared>>

Pop ==
  \E n \in PopSizes :
    LET count == Smaller(n, available)
        first == Smaller(count, CapacityFrames - readFrame)
    IN  /\ packet' = <<>>
        /\ output' = [i \in 1 .. count |-> IF i <= first THEN data[readFrame + i - 1]
                                           ELSE data[i - first - 1]]
        /\ readFrame' = (readFrame + count) % CapacityFrames
        /\ available' = available - count
        /\ delivered' = delivered + count
        /\ UNCHANGED <<data, writeFrame, pushed, dropped, cleared>>

Clear ==
  /\ packet' = <<>> /\ output' = <<>>
  /\ readFrame' = 0 /\ writeFrame' = 0 /\ available' = 0
  /\ cleared' = cleared + available
  /\ UNCHANGED <<data, pushed, dropped, delivered>>

RingNext == Push \/ Pop \/ Clear

RingSpec == RingInit /\ [][RingNext]_ringVars
-----------------------------------------------------------------------------
TypeOK ==
  /\ data \in [Slots -> Nat] /\ readFrame \in Slots /\ writeFrame \in Slots
  /\ available \in 0 .. CapacityFrames
  /\ packet \in Seq(Nat) /\ output \in Seq(Nat)
  /\ pushed \in Nat /\ dropped \in Nat /\ delivered \in Nat /\ cleared \in Nat

\* The frames the storage and its two indices stand for, oldest first.
Held == [i \in 1 .. available |-> data[(readFrame + i - 1) % CapacityFrames]]

Frames == INSTANCE FrameQueue WITH Frame <- Nat, queue <- Held, Capacity <- CapacityFrames

\* PcmRing, with its wrap-around, its two-span copies and its restart on a
\* packet longer than itself, implements the queue of the newest frames.
ImplementsQueue == Frames!Spec

\* Every frame is played, discarded by a restart, reported as an overrun
\* (PrepareWrite's overrunObserver_) or still held; none is counted twice.
LossAccounted == pushed = delivered + cleared + dropped + available
=============================================================================
