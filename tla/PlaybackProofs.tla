--------------------------- MODULE PlaybackProofs ---------------------------
(***************************************************************************)
(* The two bounded queues of playback, for every size of both.             *)
(*                                                                         *)
(* PcmRing, for every capacity and all packet and pop sizes: its type and  *)
(* its accounts, and that it implements FrameQueue.  The invariant the     *)
(* proofs need says where the next frame is written: available slots after *)
(* the next one read.                                                      *)
(*                                                                         *)
(* AudioOutput, for a log of any capacity, any number of attempts, changes *)
(* and sessions: the queue of diagnostics implements MessageQueue, because *)
(* its two writers never meet, and no driver is entered without its lease.  *)
(***************************************************************************)
EXTENDS AudioOutput, PcmRing, SequenceTheorems, TLAPS

\* An index at most once around the slots.
LEMMA Wrap ==
  ASSUME NEW C \in Nat \ {0}, NEW x \in 0 .. 2 * C - 1
  PROVE  x % C = IF x < C THEN x ELSE x - C
  BY SMT

-----------------------------------------------------------------------------
(* PcmRing *)

\* The write index is redundant, which is what makes a wrap correct.
WriteFollows == writeFrame = (readFrame + available) % CapacityFrames

RingInv == TypeOK /\ WriteFollows /\ LossAccounted

\* Two indices a distance apart stay that distance apart when both move on:
\* the one by what was dropped, the other by what was written.
LEMMA Advance ==
  ASSUME NEW C \in Nat \ {0}, NEW r \in 0 .. C - 1, NEW a \in 0 .. C,
         NEW n \in 0 .. C, NEW d \in 0 .. a, a - d + n <= C
  PROVE  (((r + a) % C) + n) % C = (((r + d) % C) + (a - d + n)) % C
<1>1. PICK w \in 0 .. C - 1 : w = (r + a) % C /\ (w = r + a \/ w = r + a - C)
  <2>1. r + a \in 0 .. 2 * C - 1
    OBVIOUS
  <2>2. QED
    BY <2>1, Wrap
<1>2. PICK s \in 0 .. C - 1 : s = (r + d) % C /\ (s = r + d \/ s = r + d - C)
  <2>1. r + d \in 0 .. 2 * C - 1
    OBVIOUS
  <2>2. QED
    BY <2>1, Wrap
<1>3. PICK x \in 0 .. C - 1 : x = (w + n) % C /\ (x = w + n \/ x = w + n - C)
  <2>1. w + n \in 0 .. 2 * C - 1
    OBVIOUS
  <2>2. QED
    BY <2>1, Wrap
<1>4. PICK y \in 0 .. C - 1 : /\ y = (s + (a - d + n)) % C
                             /\ (y = s + (a - d + n) \/ y = s + (a - d + n) - C)
  <2>1. s + (a - d + n) \in 0 .. 2 * C - 1
    OBVIOUS
  <2>2. QED
    BY <2>1, Wrap
<1>5. x = r + a + n \/ x = r + a + n - C \/ x = r + a + n - C - C
  BY <1>1, <1>3
<1>6. y = r + a + n \/ y = r + a + n - C \/ y = r + a + n - C - C
  <2>1. CASE s = r + d
    BY <2>1, <1>4
  <2>2. CASE s = r + d - C
    BY <2>2, <1>4
  <2>3. QED
    BY <1>2, <2>1, <2>2
<1>7. QED
  BY <1>1, <1>2, <1>3, <1>4, <1>5, <1>6

\* The frames a packet pushes out are held ones, or its own beginning.
LEMMA OverrunType ==
  ASSUME TypeOK, NEW n \in Nat \ {0}
  PROVE  /\ Overrun(n) \in Nat
         /\ n < CapacityFrames => Overrun(n) <= available /\ available - Overrun(n) + n <= CapacityFrames
         /\ n >= CapacityFrames => Overrun(n) = available + n - CapacityFrames
  BY CapacityAssumption DEF TypeOK, Overrun

LEMMA InvariantInit == RingInit => RingInv
<1> SUFFICES ASSUME RingInit PROVE RingInv
  OBVIOUS
<1>1. 0 % CapacityFrames = 0
  BY CapacityAssumption, Wrap
<1>2. QED
  BY <1>1, CapacityAssumption DEF RingInit, RingInv, TypeOK, WriteFollows, LossAccounted, Slots

\* What Push leaves behind, for a packet of n frames.
LEMMA PushStep ==
  ASSUME RingInv, NEW n \in PacketSizes,
         readFrame' = Prepared(n).read, available' = Prepared(n).kept + Smaller(n, CapacityFrames),
         writeFrame' = (Prepared(n).write + Smaller(n, CapacityFrames)) % CapacityFrames
  PROVE  /\ n < CapacityFrames => /\ readFrame' = IF readFrame + Overrun(n) < CapacityFrames THEN readFrame + Overrun(n)
                                       ELSE readFrame + Overrun(n) - CapacityFrames
                            /\ available' = available - Overrun(n) + n
         /\ n >= CapacityFrames => readFrame' = 0 /\ available' = CapacityFrames
         /\ readFrame' \in Slots /\ writeFrame' \in Slots /\ available' \in 0 .. CapacityFrames
         /\ WriteFollows'
<1>0. /\ n \in Nat \ {0} /\ CapacityFrames \in Nat \ {0} /\ readFrame \in 0 .. CapacityFrames - 1
      /\ writeFrame \in 0 .. CapacityFrames - 1 /\ available \in 0 .. CapacityFrames
  BY SizesAssumption, CapacityAssumption DEF RingInv, TypeOK, Slots
<1>1. CASE n < CapacityFrames
  <2>1. /\ Overrun(n) \in Nat /\ Overrun(n) <= available
        /\ available - Overrun(n) + n <= CapacityFrames
    BY <1>0, <1>1, OverrunType DEF RingInv
  <2>2. readFrame' = (readFrame + Overrun(n)) % CapacityFrames /\ available' = available - Overrun(n) + n
    BY <1>0, <1>1 DEF Prepared, Smaller
  <2>3. readFrame' = IF readFrame + Overrun(n) < CapacityFrames THEN readFrame + Overrun(n)
                ELSE readFrame + Overrun(n) - CapacityFrames
    BY <1>0, <2>1, <2>2, Wrap
  <2>4. writeFrame' = (writeFrame + n) % CapacityFrames
    BY <1>0, <1>1 DEF Prepared, Smaller
  <2>5. writeFrame' \in 0 .. CapacityFrames - 1
    <3>1. writeFrame + n \in 0 .. 2 * CapacityFrames - 1
      BY <1>0, <1>1
    <3>2. QED
      BY <1>0, <3>1, <2>4, Wrap
  <2>6. writeFrame = (readFrame + available) % CapacityFrames
    BY DEF RingInv, WriteFollows
  <2>7. (((readFrame + available) % CapacityFrames) + n) % CapacityFrames =
          (((readFrame + Overrun(n)) % CapacityFrames) + (available - Overrun(n) + n)) % CapacityFrames
    <3>1. n \in 0 .. CapacityFrames /\ Overrun(n) \in 0 .. available
      BY <1>0, <1>1, <2>1
    <3>2. QED
      BY <1>0, <3>1, <2>1, Advance
  <2>8. writeFrame' = (readFrame' + available') % CapacityFrames
    BY <2>2, <2>4, <2>6, <2>7
  <2>9. QED
    BY <1>0, <1>1, <2>1, <2>2, <2>3, <2>5, <2>8 DEF WriteFollows, Slots
<1>2. CASE n >= CapacityFrames
  <2>1. readFrame' = 0 /\ available' = CapacityFrames /\ writeFrame' = CapacityFrames % CapacityFrames
    BY <1>0, <1>2 DEF Prepared, Smaller
  <2>2. CapacityFrames % CapacityFrames = 0
    BY <1>0, Wrap
  <2>3. QED
    BY <1>0, <1>2, <2>1, <2>2 DEF WriteFollows, Slots
<1>3. QED
  BY <1>0, <1>1, <1>2

\* A write puts the new frames after the ones kept and leaves those alone.
LEMMA WrittenAt ==
  ASSUME data \in [Slots -> Nat], NEW start \in Slots,
         NEW size \in 0 .. CapacityFrames, NEW f \in [1 .. size -> Nat]
  PROVE  /\ Written(start, f) \in [Slots -> Nat]
         /\ \A s \in Slots :
              /\ start <= s /\ s < start + size => Written(start, f)[s] = f[s - start + 1]
              /\ s < start + size - CapacityFrames =>
                   Written(start, f)[s] = f[s + CapacityFrames - start + 1]
              /\ (s < start /\ s >= start + size - CapacityFrames) \/ s >= start + size =>
                   Written(start, f)[s] = data[s]
<1>1. /\ CapacityFrames \in Nat \ {0} /\ start \in 0 .. CapacityFrames - 1
      /\ size \in Nat /\ size <= CapacityFrames
  BY CapacityAssumption DEF Slots
<1>2. Len(f) = size
  <2>1. f \in Seq(Nat)
    BY <1>1
  <2>2. QED
    BY <1>1, <2>1
<1>3. CASE size <= CapacityFrames - start
  <2>1. Smaller(size, CapacityFrames - start) = size
    BY <1>3 DEF Smaller
  <2>2. ASSUME NEW s \in Slots
        PROVE  Written(start, f)[s] = IF start <= s /\ s < start + size THEN f[s - start + 1]
                                      ELSE data[s]
    BY <1>1, <1>2, <2>1 DEF Written, Slots
  <2>3. ASSUME NEW s \in Slots, start <= s, s < start + size
        PROVE  f[s - start + 1] \in Nat
    BY <1>1, <2>3 DEF Slots
  <2>4. Written(start, f) \in [Slots -> Nat]
    <3>1. ASSUME NEW s \in Slots PROVE Written(start, f)[s] \in Nat
      BY <2>2, <2>3
    <3>2. Written(start, f) = [s \in Slots |-> Written(start, f)[s]]
      BY DEF Written
    <3>3. QED
      BY <3>1, <3>2
  <2>5. QED
    BY <1>1, <1>3, <2>2, <2>4 DEF Slots
<1>4. CASE size > CapacityFrames - start
  <2>1. Smaller(size, CapacityFrames - start) = CapacityFrames - start
    BY <1>1, <1>4 DEF Smaller
  <2>2. ASSUME NEW s \in Slots
        PROVE  Written(start, f)[s] = IF start <= s THEN f[s - start + 1]
                                      ELSE IF s < start + size - CapacityFrames
                                             THEN f[s + CapacityFrames - start + 1]
                                      ELSE data[s]
    <3>1. start + (CapacityFrames - start) = CapacityFrames /\ s < CapacityFrames
      BY <1>1 DEF Slots
    <3>2. s < size - (CapacityFrames - start) <=> s < start + size - CapacityFrames
      BY <1>1 DEF Slots
    <3>3. (CapacityFrames - start) + s + 1 = s + CapacityFrames - start + 1
      BY <1>1 DEF Slots
    <3>4. QED
      BY <1>2, <2>1, <3>1, <3>2, <3>3 DEF Written
  <2>3. ASSUME NEW s \in Slots
        PROVE  /\ start <= s => f[s - start + 1] \in Nat
               /\ s < start + size - CapacityFrames => f[s + CapacityFrames - start + 1] \in Nat
    BY <1>1, <1>4 DEF Slots
  <2>4. Written(start, f) \in [Slots -> Nat]
    <3>1. ASSUME NEW s \in Slots PROVE Written(start, f)[s] \in Nat
      BY <2>2, <2>3
    <3>2. Written(start, f) = [s \in Slots |-> Written(start, f)[s]]
      BY DEF Written
    <3>3. QED
      BY <3>1, <3>2
  <2>5. QED
    BY <1>1, <1>4, <2>2, <2>4 DEF Slots
<1>5. QED
  BY <1>1, <1>3, <1>4

LEMMA InvariantClear ==
  ASSUME RingInv, Clear
  PROVE  RingInv'
<1>1. 0 % CapacityFrames = 0
  BY CapacityAssumption, Wrap
<1>2. TypeOK'
  BY CapacityAssumption DEF RingInv, TypeOK, Clear, Slots
<1>3. WriteFollows'
  BY <1>1 DEF Clear, WriteFollows
<1>4. LossAccounted'
  BY DEF RingInv, TypeOK, LossAccounted, Clear
<1>5. QED
  BY <1>2, <1>3, <1>4 DEF RingInv

\* The frames of a packet that are written: its last ones.
LEMMA PushedFrames ==
  ASSUME pushed \in Nat, NEW n \in Nat \ {0}
  PROVE  /\ Smaller(n, CapacityFrames) \in 0 .. CapacityFrames /\ Smaller(n, CapacityFrames) <= n
         /\ [i \in 1 .. Smaller(n, CapacityFrames) |-> pushed + (n - Smaller(n, CapacityFrames)) + i]
              \in [1 .. Smaller(n, CapacityFrames) -> Nat]
<1>1. Smaller(n, CapacityFrames) \in 0 .. CapacityFrames /\ Smaller(n, CapacityFrames) <= n
  BY CapacityAssumption DEF Smaller
<1>2. ASSUME NEW i \in 1 .. Smaller(n, CapacityFrames)
      PROVE  pushed + (n - Smaller(n, CapacityFrames)) + i \in Nat
  BY <1>1, CapacityAssumption
<1>3. QED
  BY <1>1, <1>2

LEMMA InvariantPush ==
  ASSUME RingInv, Push
  PROVE  RingInv'
<1>1. PICK n \in PacketSizes :
        /\ packet' = [i \in 1 .. n |-> pushed + i] /\ output' = <<>>
        /\ data' = Written(Prepared(n).write,
                           [i \in 1 .. Smaller(n, CapacityFrames) |->
                              pushed + (n - Smaller(n, CapacityFrames)) + i])
        /\ readFrame' = Prepared(n).read
        /\ writeFrame' = (Prepared(n).write + Smaller(n, CapacityFrames)) % CapacityFrames
        /\ available' = Prepared(n).kept + Smaller(n, CapacityFrames)
        /\ pushed' = pushed + n /\ dropped' = dropped + Overrun(n)
        /\ UNCHANGED <<delivered, cleared>>
  BY DEF Push
<1>2. n \in Nat \ {0}
  BY SizesAssumption
<1>3. /\ n < CapacityFrames => available' = available - Overrun(n) + n
      /\ n >= CapacityFrames => available' = CapacityFrames
      /\ readFrame' \in Slots /\ writeFrame' \in Slots /\ available' \in 0 .. CapacityFrames
      /\ WriteFollows'
  BY <1>1, PushStep
<1>4. Prepared(n).write \in Slots
  BY CapacityAssumption DEF Prepared, Slots, RingInv, TypeOK
<1>5. data' \in [Slots -> Nat]
  <2>1. data \in [Slots -> Nat] /\ pushed \in Nat
    BY DEF RingInv, TypeOK
  <2>2. QED
    BY <1>1, <1>2, <1>4, <2>1, PushedFrames, WrittenAt
<1>6. Overrun(n) \in Nat /\ (n >= CapacityFrames => Overrun(n) = available + n - CapacityFrames)
  BY <1>2, OverrunType DEF RingInv
<1>7. packet' \in Seq(Nat) /\ output' \in Seq(Nat)
  <2>1. ASSUME NEW i \in 1 .. n PROVE pushed + i \in Nat
    BY DEF RingInv, TypeOK
  <2>2. packet' \in Seq(Nat)
    BY <1>1, <1>2, <2>1
  <2>3. output' \in Seq(Nat)
    BY <1>1
  <2>4. QED
    BY <2>2, <2>3
<1>8. TypeOK'
  <2>1. pushed' \in Nat /\ dropped' \in Nat /\ delivered' \in Nat /\ cleared' \in Nat
    BY <1>1, <1>2, <1>6 DEF RingInv, TypeOK
  <2>2. QED
    BY <1>3, <1>5, <1>7, <2>1 DEF TypeOK
<1>9. LossAccounted'
  <2>1. /\ pushed \in Nat /\ dropped \in Nat /\ delivered \in Nat /\ cleared \in Nat
        /\ available \in Nat /\ pushed = delivered + cleared + dropped + available
    BY CapacityAssumption DEF RingInv, TypeOK, LossAccounted
  <2>2. CASE n < CapacityFrames
    BY <1>1, <1>2, <1>3, <1>6, <2>1, <2>2 DEF LossAccounted
  <2>3. CASE n >= CapacityFrames
    BY <1>1, <1>2, <1>3, <1>6, <2>1, <2>3, CapacityAssumption DEF LossAccounted
  <2>4. QED
    BY <1>2, <2>2, <2>3, CapacityAssumption
<1>10. QED
  BY <1>3, <1>8, <1>9 DEF RingInv

\* What Pop leaves behind, when it takes c frames.
LEMMA PopStep ==
  ASSUME RingInv, NEW n \in PopSizes
  PROVE  /\ Smaller(n, available) \in 0 .. available
         /\ (readFrame + Smaller(n, available)) % CapacityFrames \in Slots
         /\ writeFrame = (((readFrame + Smaller(n, available)) % CapacityFrames)
                        + (available - Smaller(n, available))) % CapacityFrames
<1> DEFINE c == Smaller(n, available)
<1>0. /\ n \in Nat \ {0} /\ CapacityFrames \in Nat \ {0} /\ readFrame \in 0 .. CapacityFrames - 1
      /\ writeFrame \in 0 .. CapacityFrames - 1 /\ available \in 0 .. CapacityFrames
  BY SizesAssumption, CapacityAssumption DEF RingInv, TypeOK, Slots
<1>1. c \in 0 .. available
  BY <1>0 DEF Smaller
<1> HIDE DEF c
<1>2. (readFrame + c) % CapacityFrames \in 0 .. CapacityFrames - 1
  <2>1. readFrame + c \in 0 .. 2 * CapacityFrames - 1
    BY <1>0, <1>1
  <2>2. QED
    BY <1>0, <2>1, Wrap
<1>3. writeFrame = (((readFrame + c) % CapacityFrames) + (available - c)) % CapacityFrames
  <2>1. (((readFrame + available) % CapacityFrames) + 0) % CapacityFrames =
          (((readFrame + c) % CapacityFrames) + (available - c + 0)) % CapacityFrames
    <3>1. 0 \in 0 .. CapacityFrames /\ available - c + 0 <= CapacityFrames
      BY <1>0, <1>1
    <3>2. QED
      BY <1>0, <1>1, <3>1, Advance
  <2>2. writeFrame = (readFrame + available) % CapacityFrames
    BY DEF RingInv, WriteFollows
  <2>3. writeFrame % CapacityFrames = writeFrame
    <3>1. writeFrame \in 0 .. 2 * CapacityFrames - 1 /\ writeFrame < CapacityFrames
      BY <1>0
    <3>2. QED
      BY <1>0, <3>1, Wrap
  <2>4. writeFrame + 0 = writeFrame /\ available - c + 0 = available - c
    BY <1>0, <1>1
  <2>5. QED
    BY <2>1, <2>2, <2>3, <2>4
<1>4. QED
  BY <1>1, <1>2, <1>3 DEF c, Slots

LEMMA InvariantPop ==
  ASSUME RingInv, Pop
  PROVE  RingInv'
<1>1. PICK n \in PopSizes :
        /\ packet' = <<>>
        /\ output' = [i \in 1 .. Smaller(n, available) |->
              IF i <= Smaller(Smaller(n, available), CapacityFrames - readFrame) THEN data[readFrame + i - 1]
              ELSE data[i - Smaller(Smaller(n, available), CapacityFrames - readFrame) - 1]]
        /\ readFrame' = (readFrame + Smaller(n, available)) % CapacityFrames
        /\ available' = available - Smaller(n, available)
        /\ delivered' = delivered + Smaller(n, available)
        /\ UNCHANGED <<data, writeFrame, pushed, dropped, cleared>>
  BY DEF Pop
<1> DEFINE c == Smaller(n, available)
<1>2. /\ c \in 0 .. available
      /\ readFrame' \in Slots /\ writeFrame' = (readFrame' + available') % CapacityFrames
  BY <1>1, PopStep
<1>3. /\ CapacityFrames \in Nat \ {0} /\ readFrame \in 0 .. CapacityFrames - 1 /\ available \in 0 .. CapacityFrames
  BY CapacityAssumption DEF RingInv, TypeOK, Slots
<1>4. output' \in Seq(Nat)
  <2>1. ASSUME NEW i \in 1 .. c
        PROVE  output'[i] \in Nat
    <3>1. /\ Smaller(c, CapacityFrames - readFrame) \in Nat
          /\ i <= Smaller(c, CapacityFrames - readFrame) => readFrame + i - 1 \in Slots
          /\ ~(i <= Smaller(c, CapacityFrames - readFrame)) => i - Smaller(c, CapacityFrames - readFrame) - 1 \in Slots
      <4> HIDE DEF c
      <4>1. QED
        BY <1>2, <1>3 DEF Smaller, Slots
    <3>2. data \in [Slots -> Nat]
      BY DEF RingInv, TypeOK
    <3>3. QED
      BY <1>1, <3>1, <3>2
  <2>2. c \in Nat /\ output' = [i \in 1 .. c |-> output'[i]]
    BY <1>1, <1>2, <1>3
  <2>3. QED
    BY <2>1, <2>2
<1>5. packet' \in Seq(Nat)
  BY <1>1
<1>6. available' \in 0 .. CapacityFrames /\ delivered' \in Nat
  <2>1. available' = available - c /\ delivered' = delivered + c /\ delivered \in Nat
    BY <1>1 DEF RingInv, TypeOK
  <2> HIDE DEF c
  <2>2. QED
    BY <1>2, <1>3, <2>1
<1>7. TypeOK'
  BY <1>1, <1>2, <1>4, <1>5, <1>6 DEF RingInv, TypeOK
<1>8. LossAccounted'
  <2>1. /\ pushed \in Nat /\ dropped \in Nat /\ delivered \in Nat /\ cleared \in Nat
        /\ pushed = delivered + cleared + dropped + available
    BY DEF RingInv, TypeOK, LossAccounted
  <2>2. /\ available' = available - c /\ delivered' = delivered + c
        /\ UNCHANGED <<pushed, dropped, cleared>>
    BY <1>1
  <2> HIDE DEF c
  <2>3. QED
    BY <1>2, <1>3, <2>1, <2>2 DEF LossAccounted
<1>9. QED
  BY <1>2, <1>7, <1>8 DEF RingInv, WriteFollows

LEMMA InvariantStep == RingInv /\ [RingNext]_ringVars => RingInv'
<1> SUFFICES ASSUME RingInv, [RingNext]_ringVars PROVE RingInv'
  OBVIOUS
<1>1. CASE Push
  BY <1>1, InvariantPush
<1>2. CASE Pop
  BY <1>2, InvariantPop
<1>3. CASE Clear
  BY <1>3, InvariantClear
<1>4. CASE UNCHANGED ringVars
  BY <1>4 DEF ringVars, RingInv, TypeOK, WriteFollows, LossAccounted, Slots
<1>5. QED
  BY <1>1, <1>2, <1>3, <1>4 DEF RingNext

LEMMA Inductive == RingSpec => []RingInv
<1>1. QED
  BY InvariantInit, InvariantStep, PTL DEF RingSpec

\* The ring's indices stay within its storage and its count within its capacity.
THEOREM RingTypeCorrect == RingSpec => []TypeOK
<1>1. RingInv => TypeOK
  BY DEF RingInv
<1>2. QED
  BY <1>1, Inductive, PTL

\* PrepareWrite, Pop and Clear lose no frame without an account of it.
THEOREM EveryFrameAccounted == RingSpec => []LossAccounted
<1>1. RingInv => LossAccounted
  BY DEF RingInv
<1>2. QED
  BY <1>1, Inductive, PTL

\* Going round the storage in one move or in two.
LEMMA Shift ==
  ASSUME NEW C \in Nat \ {0}, NEW r \in 0 .. C - 1, NEW c \in Nat, NEW k \in Nat, c + k < C
  PROVE  /\ (((r + c) % C) + k) % C = (r + c + k) % C
         /\ (r + c + k) % C \in 0 .. C - 1
         /\ (r + c + k) % C = IF r + c + k < C THEN r + c + k ELSE r + c + k - C
<1>1. PICK s \in 0 .. C - 1 : s = (r + c) % C /\ (s = r + c \/ s = r + c - C)
  <2>1. r + c \in 0 .. 2 * C - 1
    OBVIOUS
  <2>2. QED
    BY <2>1, Wrap
<1>2. PICK t \in 0 .. C - 1 : t = (s + k) % C /\ (t = s + k \/ t = s + k - C)
  <2>1. s + k \in 0 .. 2 * C - 1
    OBVIOUS
  <2>2. QED
    BY <2>1, Wrap
<1>3. (r + c + k) % C = IF r + c + k < C THEN r + c + k ELSE r + c + k - C
  <2>1. PICK x \in 0 .. 2 * C - 1 : x = r + c + k
    OBVIOUS
  <2>2. x % C = IF x < C THEN x ELSE x - C
    BY Wrap
  <2>3. QED
    BY <2>1, <2>2
<1>4. t = IF r + c + k < C THEN r + c + k ELSE r + c + k - C
  BY <1>1, <1>2
<1>5. QED
  BY <1>1, <1>2, <1>3, <1>4

\* The slot of the i-th frame held, and the frames as a sequence.
LEMMA HeldAt ==
  ASSUME RingInv
  PROVE  /\ Held \in Seq(Nat) /\ Len(Held) = available
         /\ \A i \in 1 .. available :
              /\ (readFrame + i - 1) % CapacityFrames \in Slots
              /\ (readFrame + i - 1) % CapacityFrames = IF readFrame + i - 1 < CapacityFrames THEN readFrame + i - 1
                                             ELSE readFrame + i - 1 - CapacityFrames
              /\ Held[i] = data[(readFrame + i - 1) % CapacityFrames]
<1>1. /\ CapacityFrames \in Nat \ {0} /\ readFrame \in 0 .. CapacityFrames - 1
      /\ available \in 0 .. CapacityFrames /\ data \in [Slots -> Nat]
  BY CapacityAssumption DEF RingInv, TypeOK, Slots
<1>2. ASSUME NEW i \in 1 .. available
      PROVE  /\ (readFrame + i - 1) % CapacityFrames \in Slots
             /\ (readFrame + i - 1) % CapacityFrames = IF readFrame + i - 1 < CapacityFrames THEN readFrame + i - 1
                                            ELSE readFrame + i - 1 - CapacityFrames
  <2>1. PICK x \in 0 .. 2 * CapacityFrames - 1 : x = readFrame + i - 1
    BY <1>1
  <2>2. x % CapacityFrames = IF x < CapacityFrames THEN x ELSE x - CapacityFrames
    BY <1>1, Wrap
  <2>3. QED
    BY <1>1, <2>1, <2>2 DEF Slots
<1>3. ASSUME NEW i \in 1 .. available
      PROVE  Held[i] = data[(readFrame + i - 1) % CapacityFrames] /\ Held[i] \in Nat
  BY <1>1, <1>2 DEF Held
<1>4. Held \in Seq(Nat) /\ Len(Held) = available
  <2>1. Held = [i \in 1 .. available |-> data[(readFrame + i - 1) % CapacityFrames]] /\ available \in Nat
    BY <1>1 DEF Held
  <2>2. \A i \in 1 .. available : data[(readFrame + i - 1) % CapacityFrames] \in Nat
    BY <1>1, <1>2
  <2>3. QED
    BY <2>1, <2>2
<1>5. QED
  BY <1>2, <1>3, <1>4

LEMMA ClearEmpties ==
  ASSUME RingInv, Clear
  PROVE  Frames!Empty
<1>1. Held' = <<>>
  <2>1. Held' = [i \in 1 .. available' |-> data'[(readFrame' + i - 1) % CapacityFrames]]
    BY DEF Held
  <2>2. available' = 0
    BY DEF Clear
  <2>3. QED
    BY <2>1, <2>2
<1>2. QED
  BY <1>1 DEF Clear, Frames!Empty

\* Pop takes the oldest frames, across the end of the storage too.
LEMMA PopGets ==
  ASSUME RingInv, Pop
  PROVE  Frames!Get
<1>1. PICK n \in PopSizes :
        /\ packet' = <<>>
        /\ output' = [i \in 1 .. Smaller(n, available) |->
              IF i <= Smaller(Smaller(n, available), CapacityFrames - readFrame) THEN data[readFrame + i - 1]
              ELSE data[i - Smaller(Smaller(n, available), CapacityFrames - readFrame) - 1]]
        /\ readFrame' = (readFrame + Smaller(n, available)) % CapacityFrames
        /\ available' = available - Smaller(n, available)
        /\ UNCHANGED data
  BY DEF Pop
<1>2. PICK c \in 0 .. available : c = Smaller(n, available)
  BY PopStep
<1>3. /\ CapacityFrames \in Nat \ {0} /\ readFrame \in 0 .. CapacityFrames - 1
      /\ available \in 0 .. CapacityFrames /\ c \in Nat /\ c <= available
  BY <1>2, CapacityAssumption DEF RingInv, TypeOK, Slots
<1>4. output' = [i \in 1 .. c |-> Held[i]]
  <2>1. ASSUME NEW i \in 1 .. c
        PROVE  (IF i <= Smaller(c, CapacityFrames - readFrame) THEN data[readFrame + i - 1]
                ELSE data[i - Smaller(c, CapacityFrames - readFrame) - 1]) = Held[i]
    <3>1. /\ Held[i] = data[(readFrame + i - 1) % CapacityFrames]
          /\ (readFrame + i - 1) % CapacityFrames = IF readFrame + i - 1 < CapacityFrames THEN readFrame + i - 1
                                         ELSE readFrame + i - 1 - CapacityFrames
      <4>1. i \in 1 .. available
        BY <1>3
      <4> QED BY <4>1, HeldAt
    <3>2. CASE i <= Smaller(c, CapacityFrames - readFrame)
      <4>1. readFrame + i - 1 < CapacityFrames
        BY <1>3, <3>2 DEF Smaller
      <4>2. QED
        BY <3>1, <3>2, <4>1
    <3>3. CASE ~(i <= Smaller(c, CapacityFrames - readFrame))
      <4>1. /\ ~(readFrame + i - 1 < CapacityFrames)
            /\ i - Smaller(c, CapacityFrames - readFrame) - 1 = readFrame + i - 1 - CapacityFrames
        BY <1>3, <3>3 DEF Smaller
      <4>2. QED
        BY <3>1, <3>3, <4>1
    <3>4. QED
      BY <3>2, <3>3
  <2>2. QED
    BY <1>1, <1>2, <2>1
<1>5. Held' = [i \in 1 .. Len(Held) - c |-> Held[c + i]]
  <2>1. Held' = [i \in 1 .. available - c |-> data[(((readFrame + c) % CapacityFrames) + i - 1) % CapacityFrames]]
    BY <1>1, <1>2 DEF Held
  <2>2. ASSUME NEW i \in 1 .. available - c
        PROVE  data[(((readFrame + c) % CapacityFrames) + i - 1) % CapacityFrames] = Held[c + i]
    <3>1. Held[c + i] = data[(readFrame + (c + i) - 1) % CapacityFrames]
      <4>1. c + i \in 1 .. available
        BY <1>3
      <4>2. QED
        BY <4>1, HeldAt
    <3>2. (((readFrame + c) % CapacityFrames) + (i - 1)) % CapacityFrames = (readFrame + c + (i - 1)) % CapacityFrames
      <4>1. i - 1 \in Nat /\ c + (i - 1) < CapacityFrames
        BY <1>3
      <4>2. QED
        BY <1>3, <4>1, Shift
    <3>3. (readFrame + c) % CapacityFrames \in 0 .. CapacityFrames - 1
      <4>1. readFrame' \in Slots
        BY <1>1, InvariantPop DEF RingInv, TypeOK
      <4>2. QED
        BY <1>1, <1>2, <4>1 DEF Slots
    <3>4. /\ ((readFrame + c) % CapacityFrames) + (i - 1) = ((readFrame + c) % CapacityFrames) + i - 1
          /\ readFrame + c + (i - 1) = readFrame + (c + i) - 1
      BY <1>3, <3>3
    <3>5. QED
      BY <3>1, <3>2, <3>4
  <2>3. Len(Held) = available
    BY HeldAt
  <2>4. QED
    BY <2>1, <2>2, <2>3
<1>6. c \in 0 .. Len(Held)
  BY HeldAt
<1>7. QED
  BY <1>1, <1>4, <1>5, <1>6 DEF Frames!Get

\* The slot s of the i-th frame held after a packet of n frames: an old frame is
\* where it was and outside what is written, a new one is written there.
InItsSlot(C, r, a, n, d, w, i, s) ==
  /\ s \in 0 .. C - 1
  /\ d + i <= a => /\ s = (r + (d + i) - 1) % C
                   /\ (s < w /\ s >= w + n - C) \/ s >= w + n
  /\ d + i > a => \/ w <= s /\ s < w + n /\ s - w + 1 = d + i - a
                  \/ s < w + n - C /\ s + C - w + 1 = d + i - a

LEMMA SlotOf ==
  ASSUME NEW C \in Nat \ {0}, NEW r \in 0 .. C - 1, NEW a \in 0 .. C, NEW n \in 1 .. C - 1,
         NEW d \in 0 .. a, a - d + n <= C, NEW w \in 0 .. C - 1, w = (r + a) % C,
         NEW t \in 0 .. C - 1, t = (r + d) % C, NEW i \in 1 .. a - d + n,
         NEW s, s = (t + i - 1) % C
  PROVE  InItsSlot(C, r, a, n, d, w, i, s)
<1>1. w = r + a \/ w = r + a - C
  <2>1. PICK x \in 0 .. 2 * C - 1 : x = r + a
    OBVIOUS
  <2>2. x % C = IF x < C THEN x ELSE x - C
    BY Wrap
  <2>3. QED
    BY <2>1, <2>2
<1>2. t = r + d \/ t = r + d - C
  <2>1. PICK x \in 0 .. 2 * C - 1 : x = r + d
    OBVIOUS
  <2>2. x % C = IF x < C THEN x ELSE x - C
    BY Wrap
  <2>3. QED
    BY <2>1, <2>2
<1>3. s \in 0 .. C - 1 /\ (s = t + i - 1 \/ s = t + i - 1 - C)
  <2>1. PICK x \in 0 .. 2 * C - 1 : x = t + i - 1
    OBVIOUS
  <2>2. x % C = IF x < C THEN x ELSE x - C
    BY Wrap
  <2>3. QED
    BY <2>1, <2>2
<1>4. ASSUME d + i <= a
      PROVE  /\ s = (r + (d + i) - 1) % C
             /\ (s < w /\ s >= w + n - C) \/ s >= w + n
  <2>1. PICK x \in 0 .. 2 * C - 1 : x = r + (d + i) - 1
    BY <1>4
  <2>2. x % C = IF x < C THEN x ELSE x - C
    BY Wrap
  <2>3. s = x % C
    BY <1>2, <1>3, <2>1, <2>2
  <2>4. (s < w /\ s >= w + n - C) \/ s >= w + n
    <3>1. CASE w = r + a
      BY <1>2, <1>3, <1>4, <3>1
    <3>2. CASE w = r + a - C
      BY <1>2, <1>3, <1>4, <3>2
    <3>3. QED
      BY <1>1, <3>1, <3>2
  <2>5. QED
    BY <2>1, <2>3, <2>4
<1>5. ASSUME d + i > a
      PROVE  \/ w <= s /\ s < w + n /\ s - w + 1 = d + i - a
             \/ s < w + n - C /\ s + C - w + 1 = d + i - a
  <2>1. CASE w = r + a
    BY <1>2, <1>3, <1>5, <2>1
  <2>2. CASE w = r + a - C
    <3>1. CASE t = r + d
      BY <1>3, <1>5, <2>2, <3>1
    <3>2. CASE t = r + d - C
      BY <1>3, <1>5, <2>2, <3>2
    <3>3. QED
      BY <1>2, <3>1, <3>2
  <2>3. QED
    BY <1>1, <2>1, <2>2
<1>6. QED
  BY <1>3, <1>4, <1>5 DEF InItsSlot

\* What a queue keeps of its a frames and of a packet's n, when d are pushed out.
Follow(h, f, a, n, d) ==
  [i \in 1 .. a - d + n |-> IF d + i <= a THEN h[d + i] ELSE f[d + i - a]]

LEMMA NewestOf ==
  ASSUME NEW h \in Seq(Nat), NEW f \in Seq(Nat), NEW a \in 0 .. CapacityFrames, NEW n \in Nat,
         Len(h) = a, Len(f) = n, NEW d \in Nat,
         a + n > CapacityFrames => d = a + n - CapacityFrames, a + n <= CapacityFrames => d = 0
  PROVE  Frames!Newest(h \o f) = Follow(h, f, a, n, d)
<1> USE DEF Follow
<1>1. /\ h \o f \in Seq(Nat) /\ Len(h \o f) = a + n
      /\ \A j \in 1 .. a + n : (h \o f)[j] = IF j <= a THEN h[j] ELSE f[j - a]
  BY ConcatProperties
<1>2. CASE a + n <= CapacityFrames
  <2>1. d = 0 /\ a - d + n = a + n
    BY <1>2, CapacityAssumption
  <2>2. Frames!Newest(h \o f) = h \o f
    BY <1>1, <1>2 DEF Frames!Newest
  <2>3. h \o f = [j \in 1 .. a + n |-> IF j <= a THEN h[j] ELSE f[j - a]]
    <3>1. h \o f \in [1 .. a + n -> Nat]
      BY <1>1, LenProperties
    <3>2. QED
      BY <1>1, <3>1
  <2>4. [i \in 1 .. a + n |-> IF d + i <= a THEN h[d + i] ELSE f[d + i - a]] =
          [j \in 1 .. a + n |-> IF j <= a THEN h[j] ELSE f[j - a]]
    BY <2>1
  <2>5. QED
    BY <2>1, <2>2, <2>3, <2>4
<1>3. CASE a + n > CapacityFrames
  <2>1. d = a + n - CapacityFrames /\ a - d + n = CapacityFrames
    BY <1>3, CapacityAssumption
  <2>2. ~(Len(h \o f) <= CapacityFrames)
    BY <1>1, <1>3, CapacityAssumption
  <2>3. Frames!Newest(h \o f) = [i \in 1 .. CapacityFrames |-> (h \o f)[Len(h \o f) - CapacityFrames + i]]
    BY <2>2 DEF Frames!Newest
  <2>4. ASSUME NEW i \in 1 .. CapacityFrames
        PROVE  (h \o f)[Len(h \o f) - CapacityFrames + i] = IF d + i <= a THEN h[d + i] ELSE f[d + i - a]
    <3>1. Len(h \o f) - CapacityFrames + i = d + i /\ d + i \in 1 .. a + n
      BY <1>1, <1>3, <2>1, CapacityAssumption
    <3>2. QED
      BY <1>1, <3>1
  <2>5. QED
    BY <2>1, <2>3, <2>4
<1>4. a + n <= CapacityFrames \/ a + n > CapacityFrames
  BY CapacityAssumption
<1>5. QED
  BY <1>2, <1>3, <1>4, Zenon

LEMMA HeldNewest ==
  ASSUME RingInv, NEW g \in Seq(Nat), NEW n \in Nat, Len(g) = n, NEW d \in Nat,
         available + n > CapacityFrames => d = available + n - CapacityFrames,
         available + n <= CapacityFrames => d = 0
  PROVE  Frames!Newest(Held \o g) = Follow(Held, g, available, n, d)
<1>1. PICK h \in Seq(Nat) : h = Held /\ Len(h) = available
  BY HeldAt
<1>2. available \in 0 .. CapacityFrames
  BY DEF RingInv, TypeOK
<1>3. Frames!Newest(h \o g) = Follow(h, g, available, n, d)
  BY <1>1, <1>2, NewestOf
<1>4. QED
  BY <1>1, <1>3

\* A packet that fits, with what it pushes out, follows the frames kept.
LEMMA ShortPushPuts ==
  ASSUME RingInv, RingInv', NEW n \in Nat \ {0}, n < CapacityFrames,
         packet' = [i \in 1 .. n |-> pushed + i],
         data' = Written(writeFrame, [i \in 1 .. n |-> pushed + i]),
         readFrame' = (readFrame + Overrun(n)) % CapacityFrames,
         available' = available - Overrun(n) + n
  PROVE  Held' = Frames!Newest(Held \o packet')
<1>1. /\ CapacityFrames \in Nat \ {0} /\ readFrame \in 0 .. CapacityFrames - 1 /\ writeFrame \in 0 .. CapacityFrames - 1
      /\ available \in 0 .. CapacityFrames /\ data \in [Slots -> Nat] /\ pushed \in Nat
      /\ writeFrame = (readFrame + available) % CapacityFrames
      /\ readFrame' \in 0 .. CapacityFrames - 1
  BY CapacityAssumption DEF RingInv, TypeOK, Slots, WriteFollows
<1>2. PICK d \in Nat : d = Overrun(n)
  BY OverrunType DEF RingInv
<1>3. /\ d \in 0 .. available /\ available - d + n <= CapacityFrames
      /\ d = IF available + n > CapacityFrames THEN available + n - CapacityFrames ELSE 0
  <2>1. Overrun(n) <= available /\ available - Overrun(n) + n <= CapacityFrames
    BY <1>1, OverrunType DEF RingInv
  <2>2. Overrun(n) = IF available + n > CapacityFrames THEN available + n - CapacityFrames ELSE 0
    BY <1>1 DEF Overrun
  <2>3. QED
    BY <1>1, <1>2, <2>1, <2>2
<1>4. PICK f \in [1 .. n -> Nat] : f = [i \in 1 .. n |-> pushed + i]
  BY <1>1
<1>5. f \in Seq(Nat) /\ Len(f) = n
  BY <1>4
<1>6. Frames!Newest(Held \o f) =
        [i \in 1 .. available - d + n |-> IF d + i <= available THEN Held[d + i]
                                         ELSE f[d + i - available]]
  <2>1. PICK h \in Seq(Nat) : h = Held /\ Len(h) = available
    BY HeldAt
  <2>2. Frames!Newest(h \o f) = Follow(h, f, available, n, d)
    <3>1. /\ available \in 0 .. CapacityFrames /\ n \in Nat /\ d \in Nat
          /\ available + n > CapacityFrames => d = available + n - CapacityFrames
          /\ available + n <= CapacityFrames => d = 0
      BY <1>1, <1>3
    <3>2. QED
      BY <1>5, <2>1, <3>1, NewestOf
  <2>3. QED
    BY <2>1, <2>2 DEF Follow
<1>7. Held' = [i \in 1 .. available - d + n |->
                 Written(writeFrame, f)[(readFrame' + i - 1) % CapacityFrames]]
  BY <1>2, <1>4 DEF Held
<1>8. ASSUME NEW i \in 1 .. available - d + n
      PROVE  Written(writeFrame, f)[(readFrame' + i - 1) % CapacityFrames] =
               IF d + i <= available THEN Held[d + i] ELSE f[d + i - available]
  <2>1. PICK t \in 0 .. CapacityFrames - 1 : t = readFrame'
    BY <1>1
  <2>2. PICK s \in 0 .. CapacityFrames - 1 :
          /\ s = (readFrame' + i - 1) % CapacityFrames
          /\ d + i <= available => /\ s = (readFrame + (d + i) - 1) % CapacityFrames
                                   /\ (s < writeFrame /\ s >= writeFrame + n - CapacityFrames) \/ s >= writeFrame + n
          /\ d + i > available =>
               \/ writeFrame <= s /\ s < writeFrame + n /\ s - writeFrame + 1 = d + i - available
               \/ s < writeFrame + n - CapacityFrames /\ s + CapacityFrames - writeFrame + 1 = d + i - available
    <3>1. t = (readFrame + d) % CapacityFrames /\ n \in 1 .. CapacityFrames - 1
      BY <1>1, <1>2, <2>1
    <3>2. PICK s : s = (t + i - 1) % CapacityFrames
      OBVIOUS
    <3>3. InItsSlot(CapacityFrames, readFrame, available, n, d, writeFrame, i, s)
      BY <1>1, <1>3, <3>1, <3>2, SlotOf, ZenonT(60)
    <3>4. QED
      BY <2>1, <3>2, <3>3 DEF InItsSlot
  <2>3. /\ writeFrame <= s /\ s < writeFrame + n => Written(writeFrame, f)[s] = f[s - writeFrame + 1]
        /\ s < writeFrame + n - CapacityFrames => Written(writeFrame, f)[s] = f[s + CapacityFrames - writeFrame + 1]
        /\ (s < writeFrame /\ s >= writeFrame + n - CapacityFrames) \/ s >= writeFrame + n =>
             Written(writeFrame, f)[s] = data[s]
    <3>1. n \in 0 .. CapacityFrames /\ writeFrame \in Slots /\ s \in Slots
      BY <1>1 DEF Slots
    <3>2. f \in [1 .. n -> Nat]
      OBVIOUS
    <3>3. \A u \in Slots :
            /\ writeFrame <= u /\ u < writeFrame + n => Written(writeFrame, f)[u] = f[u - writeFrame + 1]
            /\ u < writeFrame + n - CapacityFrames => Written(writeFrame, f)[u] = f[u + CapacityFrames - writeFrame + 1]
            /\ (u < writeFrame /\ u >= writeFrame + n - CapacityFrames) \/ u >= writeFrame + n =>
                 Written(writeFrame, f)[u] = data[u]
      BY <1>1, <3>1, <3>2, WrittenAt, ZenonT(60)
    <3>4. QED
      BY <3>1, <3>3
  <2>4. CASE d + i <= available
    <3>1. d + i \in 1 .. available
      BY <1>1, <1>3, <2>4
    <3>2. Held[d + i] = data[(readFrame + (d + i) - 1) % CapacityFrames]
      BY <3>1, HeldAt
    <3>3. QED
      BY <2>2, <2>3, <2>4, <3>2
  <2>5. CASE ~(d + i <= available)
    <3>1. d + i > available
      BY <1>1, <1>3, <2>5
    <3>2. QED
      BY <2>2, <2>3, <2>5, <3>1
  <2>6. QED
    BY <2>4, <2>5
<1>9. QED
  BY <1>4, <1>6, <1>7, <1>8

\* A packet as long as the ring, or longer, replaces what it held by its end.
LEMMA LongPushPuts ==
  ASSUME RingInv, RingInv', NEW n \in Nat, n >= CapacityFrames,
         packet' = [i \in 1 .. n |-> pushed + i],
         data' = Written(0, [i \in 1 .. CapacityFrames |-> pushed + (n - CapacityFrames) + i]),
         readFrame' = 0, available' = CapacityFrames
  PROVE  Held' = Frames!Newest(Held \o packet')
<1>1. CapacityFrames \in Nat \ {0} /\ available \in 0 .. CapacityFrames /\ data \in [Slots -> Nat]
      /\ pushed \in Nat
  BY CapacityAssumption DEF RingInv, TypeOK, Slots
<1>2. PICK f \in [1 .. CapacityFrames -> Nat] :
        f = [i \in 1 .. CapacityFrames |-> pushed + (n - CapacityFrames) + i]
  <2>1. \A i \in 1 .. CapacityFrames : pushed + (n - CapacityFrames) + i \in Nat
    BY <1>1
  <2>2. [i \in 1 .. CapacityFrames |-> pushed + (n - CapacityFrames) + i] \in [1 .. CapacityFrames -> Nat]
    BY <2>1, Zenon
  <2>3. QED
    BY <2>2, Zenon
<1>3. packet' \in Seq(Nat) /\ Len(packet') = n
  BY <1>1
<1>4. PICK d \in Nat : d = available + n - CapacityFrames
  BY <1>1
<1>5. Frames!Newest(Held \o packet') = Follow(Held, packet', available, n, d)
  <2>1. PICK g \in Seq(Nat) : g = packet' /\ Len(g) = n
    BY <1>3
  <2>2. /\ available + n > CapacityFrames => d = available + n - CapacityFrames
        /\ available + n <= CapacityFrames => d = 0
    BY <1>1, <1>4
  <2>3. Frames!Newest(Held \o g) = Follow(Held, g, available, n, d)
    BY <2>1, <2>2, HeldNewest
  <2>4. QED
    BY <2>1, <2>3
<1>6. available - d + n = CapacityFrames
  BY <1>1, <1>4
<1>7. ASSUME NEW i \in 1 .. CapacityFrames
      PROVE  data'[(readFrame' + i - 1) % CapacityFrames] =
               IF d + i <= available THEN Held[d + i] ELSE packet'[d + i - available]
  <2>1. (0 + i - 1) % CapacityFrames = i - 1 /\ i - 1 \in Slots
    <3>1. PICK x \in 0 .. 2 * CapacityFrames - 1 : x = 0 + i - 1 /\ x < CapacityFrames
      BY <1>1
    <3>2. x % CapacityFrames = x
      BY <1>1, <3>1, Wrap
    <3>3. QED
      BY <1>1, <3>1, <3>2 DEF Slots
  <2>2. Written(0, f)[i - 1] = f[i]
    <3>1. CapacityFrames \in 0 .. CapacityFrames /\ 0 \in Slots /\ f \in [1 .. CapacityFrames -> Nat]
      BY <1>1 DEF Slots
    <3>2. \A u \in Slots : 0 <= u /\ u < 0 + CapacityFrames => Written(0, f)[u] = f[u - 0 + 1]
      BY <1>1, <3>1, WrittenAt, ZenonT(60)
    <3>3. 0 <= i - 1 /\ i - 1 < 0 + CapacityFrames /\ i - 1 - 0 + 1 = i
      BY <1>1
    <3>4. QED
      BY <2>1, <3>2, <3>3
  <2>3. f[i] = pushed + (n - CapacityFrames) + i
    BY <1>2
  <2>4. ~(d + i <= available) \/ n = CapacityFrames
    BY <1>1, <1>4
  <2>5. d + i - available = n - CapacityFrames + i /\ d + i > available
    BY <1>1, <1>4
  <2>6. packet'[d + i - available] = pushed + (n - CapacityFrames + i)
    <3>1. PICK k \in 1 .. n : k = d + i - available /\ k = n - CapacityFrames + i
      BY <1>1, <2>5
    <3>2. packet'[k] = pushed + k
      OBVIOUS
    <3>3. QED
      BY <3>1, <3>2
  <2>7. QED
    BY <1>1, <1>2, <2>1, <2>2, <2>3, <2>5, <2>6
<1>8. Held' = [i \in 1 .. CapacityFrames |-> data'[(readFrame' + i - 1) % CapacityFrames]]
  BY DEF Held
<1>9. QED
  BY <1>5, <1>6, <1>7, <1>8 DEF Follow

LEMMA PushPuts ==
  ASSUME RingInv, RingInv', Push
  PROVE  Frames!Put
<1>1. PICK n \in PacketSizes :
        /\ packet' = [i \in 1 .. n |-> pushed + i] /\ output' = <<>>
        /\ data' = Written(Prepared(n).write,
                           [i \in 1 .. Smaller(n, CapacityFrames) |->
                              pushed + (n - Smaller(n, CapacityFrames)) + i])
        /\ readFrame' = Prepared(n).read
        /\ available' = Prepared(n).kept + Smaller(n, CapacityFrames)
  BY DEF Push
<1>2. n \in Nat \ {0} /\ CapacityFrames \in Nat \ {0} /\ pushed \in Nat
  BY SizesAssumption, CapacityAssumption DEF RingInv, TypeOK
<1>3. ASSUME n < CapacityFrames PROVE Held' = Frames!Newest(Held \o packet')
  <2>1. Smaller(n, CapacityFrames) = n
    BY <1>2, <1>3 DEF Smaller
  <2>2. Prepared(n) = [read |-> (readFrame + Overrun(n)) % CapacityFrames, write |-> writeFrame,
                       kept |-> available - Overrun(n)]
    BY <1>2, <1>3 DEF Prepared
  <2>3. [i \in 1 .. Smaller(n, CapacityFrames) |-> pushed + (n - Smaller(n, CapacityFrames)) + i] =
          [i \in 1 .. n |-> pushed + i]
    BY <1>2, <2>1
  <2>4. data' = Written(writeFrame, [i \in 1 .. n |-> pushed + i])
    <3>1. Prepared(n).write = writeFrame
      BY <2>2
    <3>2. QED
      BY <1>1, <2>3, <3>1, Zenon
  <2>5. readFrame' = (readFrame + Overrun(n)) % CapacityFrames /\ available' = available - Overrun(n) + n
    BY <1>1, <2>1, <2>2
  <2>6. QED
    BY <1>1, <1>2, <1>3, <2>4, <2>5, ShortPushPuts
<1>4. ASSUME n >= CapacityFrames PROVE Held' = Frames!Newest(Held \o packet')
  <2>1. Smaller(n, CapacityFrames) = CapacityFrames
    BY <1>2, <1>4 DEF Smaller
  <2>2. Prepared(n) = [read |-> 0, write |-> 0, kept |-> 0]
    BY <1>2, <1>4 DEF Prepared
  <2>3. data' = Written(0, [i \in 1 .. CapacityFrames |-> pushed + (n - CapacityFrames) + i])
    BY <1>1, <2>1, <2>2
  <2>4. readFrame' = 0 /\ available' = CapacityFrames
    BY <1>1, <1>2, <2>1, <2>2
  <2>5. QED
    BY <1>1, <1>2, <1>4, <2>3, <2>4, LongPushPuts
<1>5. Held' = Frames!Newest(Held \o packet')
  BY <1>2, <1>3, <1>4
<1>6. packet' \in Seq(Nat) /\ output' = <<>>
  BY <1>1 DEF RingInv, TypeOK
<1>7. QED
  BY <1>5, <1>6 DEF Frames!Put

\* For every capacity and all packet and pop sizes, PcmRing behaves as the
\* queue of the newest frames.
THEOREM RingRefinement == RingSpec => ImplementsQueue
<1>1. RingInit => Frames!Init
  <2>1. ASSUME RingInit PROVE Held = <<>>
    <3>1. available = 0
      BY <2>1 DEF RingInit
    <3>2. QED
      BY <3>1 DEF Held
  <2>2. QED
    BY <2>1 DEF RingInit, Frames!Init
<1>2. RingInv /\ RingInv' /\ [RingNext]_ringVars => [Frames!Next]_(Frames!vars)
  <2> SUFFICES ASSUME RingInv, RingInv', [RingNext]_ringVars PROVE [Frames!Next]_(Frames!vars)
    OBVIOUS
  <2>1. CASE Push
    BY <2>1, PushPuts DEF Frames!Next
  <2>2. CASE Pop
    BY <2>2, PopGets DEF Frames!Next
  <2>3. CASE Clear
    BY <2>3, ClearEmpties DEF Frames!Next
  <2>4. CASE UNCHANGED ringVars
    BY <2>4 DEF ringVars, Held, Frames!vars
  <2>5. QED
    BY <2>1, <2>2, <2>3, <2>4 DEF RingNext
<1>3. QED
  BY <1>1, <1>2, Inductive, PTL DEF RingSpec, ImplementsQueue, Frames!Spec


-----------------------------------------------------------------------------
(* The steps, as the log sees them                                         *)

Idle == \A w \in Writers : writer[w].at = "idle"

LogStep ==
  \/ UNCHANGED log
  \/ Idle /\ \E w \in Writers, m \in Messages : Log(w, m)
  \/ \E w \in Writers : CopyMessage(w) \/ Publish(w)
  \/ PopCopy \/ PopAdvance \/ TakeDropped

Outside == Shutdown \/ ProbeBegins \/ ProbeEnds \/ WarnOfTimeout \/ ChangeDefault \/ Notify

\* No two writers are in Push at a time.
LEMMA Steps ==
  ASSUME IInv, [Next]_vars
  PROVE  LogStep
<1> USE DEF LogStep, Messages
<1>1. CASE Wasapi
  <2>1. UNCHANGED log \/ (At(pc) /\ pc \notin {"AsioRun", "Hide", "Join"} /\ \E m \in Messages : Log("owner", m))
    BY <1>1
       DEF Wasapi, At, Fails, Begin, Register, Watch, Endpoint, Prepare, Start, Loop,
           Wait, Render, Close, Classify, Backoff, Pause
  <2>2. At(pc) /\ pc \notin {"AsioRun", "Hide", "Join"} => Idle
    BY DEF IInv, OneWriter, Idle, Writers, At
  <2>3. QED
    BY <2>1, <2>2 DEF Writers
<1>2. CASE Driver
  <2>1. UNCHANGED log \/ (callback = "fill" /\ Log("callback", "drift"))
    BY <1>2 DEF Driver, Fill, SwitchReturns
  <2>2. callback = "fill" => Idle
    <3>1. LogTyped /\ OneWriter
      BY DEF IInv
    <3>2. QED
      BY <3>1 DEF OneWriter, Idle, Writers
  <2>3. QED
    BY <2>1, <2>2 DEF Writers
<1>3. CASE Asio \/ Lease \/ TryLock \/ Leased \/ OwnsLock \/ Return
  BY <1>3
     DEF Asio, Lease, TryLock, Leased, OwnsLock, Return, playback, AsioOpen, AsioPrepare, AsioStart, AsioRun, Hide,
         Join, AsioFailed, AsioRetry, AsioWait, FallBack
<1>4. CASE BufferSwitch \/ AsioMessage \/ Plays \/ Outside
  BY <1>4
     DEF BufferSwitch, AsioMessage, Plays, Outside, Shutdown, ProbeBegins, ProbeEnds,
         WarnOfTimeout, ChangeDefault, Notify, playback
<1>5. CASE UNCHANGED vars
  BY <1>5 DEF vars
<1>6. QED
  BY <1>1, <1>2, <1>3, <1>4, <1>5 DEF Next, Owner, Pushes, Flush, Outside

-----------------------------------------------------------------------------
(* The invariant                                                           *)

LEMMA FollowingTyped ==
  ASSUME NEW i \in Positions
  PROVE  /\ Following(i) \in Positions
         /\ Following(i) = IF i = Capacity THEN 0 ELSE i + 1
  BY ConstantsAssumption DEF Positions, Following

LEMMA LogTypedKept ==
  ASSUME IInv, [Next]_vars
  PROVE  LogTyped'
<1> USE DEF LogTyped
<1>1. CASE UNCHANGED log
  BY <1>1 DEF IInv, log
<1>2. ASSUME NEW w \in Writers, NEW m \in Messages, Log(w, m)
      PROVE  LogTyped'
  BY <1>2 DEF IInv, Log
<1>3. ASSUME NEW w \in Writers, CopyMessage(w)
      PROVE  LogTyped'
  BY <1>3 DEF IInv, CopyMessage
<1>4. ASSUME NEW w \in Writers, Publish(w)
      PROVE  LogTyped'
  <2>1. writer[w].slot \in Positions
    BY DEF IInv
  <2>2. NoWrite \in [at : {"idle", "copy", "publish"}, slot : Positions, message : Messages \cup {"none"}]
    BY ConstantsAssumption DEF NoWrite, Positions
  <2>3. QED
    BY <1>4, <2>1, <2>2, FollowingTyped DEF IInv, Publish
<1>5. CASE PopCopy \/ PopAdvance \/ TakeDropped
  BY <1>5, FollowingTyped DEF IInv, PopCopy, PopAdvance, TakeDropped
<1>6. QED
  BY <1>1, <1>2, <1>3, <1>4, <1>5, Steps DEF LogStep

LEMMA WritingKept ==
  ASSUME IInv, [Next]_vars
  PROVE  Writing'
<1> USE DEF Writing, Room
<1>1. CASE UNCHANGED log
  BY <1>1 DEF IInv, log
<1>2. ASSUME NEW w \in Writers, NEW m \in Messages, Log(w, m), Idle
      PROVE  Writing'
  <2>1. CASE Room
    <3>1. UNCHANGED <<messages, write, read, copied>>
      BY <1>2, <2>1 DEF Log
    <3>2. /\ writer'[w].at = "copy" /\ writer'[w].slot = write /\ writer'[w].message = m
          /\ \A v \in Writers \ {w} : writer'[v] = writer[v]
      BY <1>2, <2>1 DEF Log, IInv, LogTyped
    <3>3. QED
      BY <1>2, <2>1, <3>1, <3>2 DEF Idle, IInv
  <2>2. CASE ~Room
    BY <1>2, <2>2 DEF Log, IInv
  <2>3. QED
    BY <2>1, <2>2
<1>3. ASSUME NEW w \in Writers, CopyMessage(w)
      PROVE  Writing'
  <2>1. UNCHANGED <<write, read, copied>>
    BY <1>3 DEF CopyMessage
  <2>2. /\ writer'[w].at = "publish" /\ writer'[w].slot = writer[w].slot
        /\ writer'[w].message = writer[w].message
        /\ \A v \in Writers \ {w} : writer'[v] = writer[v]
        /\ messages'[writer[w].slot] = writer[w].message
    BY <1>3 DEF CopyMessage, IInv, LogTyped
  <2>3. \A v \in Writers \ {w} : writer[v].at = "idle"
    BY <1>3 DEF CopyMessage, IInv, OneWriter, Writers
  <2>4. QED
    BY <1>3, <2>1, <2>2, <2>3 DEF CopyMessage, IInv
<1>4. ASSUME NEW w \in Writers, Publish(w)
      PROVE  Writing'
  <2>1. \A v \in Writers \ {w} : writer[v].at = "idle"
    BY <1>4 DEF Publish, IInv, OneWriter, Writers
  <2>2. \A v \in Writers : writer'[v].at = "idle"
    BY <1>4, <2>1 DEF Publish, NoWrite, IInv, LogTyped
  <2>3. write' # read' /\ copied' = copied
    BY <1>4 DEF Publish, IInv
  <2>4. QED
    BY <2>2, <2>3
<1>5. CASE PopCopy \/ TakeDropped
  BY <1>5 DEF IInv, PopCopy, TakeDropped
<1>6. CASE PopAdvance
  <2>1. UNCHANGED <<messages, write, writer>> /\ read' = Following(read) /\ copied' = "none" /\ read # write
    BY <1>6 DEF PopAdvance, IInv
  <2>2. Following(write) # Following(read)
    <3>1. write \in 0 .. Capacity /\ read \in 0 .. Capacity /\ Capacity \in Nat /\ write # read
      BY <2>1, ConstantsAssumption DEF IInv, LogTyped, Positions
    <3>2. /\ Following(write) = IF write = Capacity THEN 0 ELSE write + 1
          /\ Following(read) = IF read = Capacity THEN 0 ELSE read + 1
      BY FollowingTyped DEF IInv, LogTyped
    <3>3. QED
      BY <3>1, <3>2
  <2>3. QED
    BY <2>1, <2>2 DEF IInv
<1>7. QED
  BY <1>1, <1>2, <1>3, <1>4, <1>5, <1>6, Steps DEF LogStep

LEMMA OneWriterKept ==
  ASSUME IInv, [Next]_vars
  PROVE  OneWriter'
<1> USE DEF OneWriter, Writers
<1>1. CASE Asio
  BY <1>1
     DEF IInv, Asio, At, log, AsioOpen, AsioPrepare, AsioStart, AsioRun, Hide, Join,
         AsioFailed, AsioRetry, AsioWait, FallBack, Kept, Opened, asio, wasapi, windows,
         recovery, stream
<1>2. CASE Wasapi
  <2>1. UNCHANGED <<driver, callback>>
    BY <1>2
       DEF Wasapi, Begin, Register, Watch, Endpoint, Prepare, Start, Loop, Wait, Render,
           Close, Classify, Backoff, Pause, Kept, Opened, asio, wasapi, windows,
           recovery, stream
  <2>2. writer'["callback"] = writer["callback"]
    BY <1>2
       DEF Wasapi, Fails, Log, log, IInv, LogTyped, Begin, Register, Watch, Endpoint,
           Prepare, Start, Loop, Wait, Render, Close, Classify, Backoff, Pause
  <2>3. writer'["owner"].at # "idle" => pc' \in {"Close", "Loop", "Pause", "Return"}
    BY <1>2
       DEF IInv, Wasapi, At, Fails, Log, log, Begin, Register, Watch, Endpoint, Prepare,
           Start, Loop, Wait, Render, Close, Classify, Backoff, Pause
  <2>4. pc \notin {"AsioRun", "Hide", "Join"}
    BY <1>2
       DEF Wasapi, At, Begin, Register, Watch, Endpoint, Prepare, Start, Loop, Wait,
           Render, Close, Classify, Backoff, Pause
  <2>5. QED
    BY <2>1, <2>2, <2>3, <2>4 DEF IInv
<1>3. CASE Driver
  <2>1. UNCHANGED <<pc, driver>> /\ writer'["owner"] = writer["owner"]
    BY <1>3 DEF Driver, Fill, SwitchReturns, Log, log, IInv, LogTyped
  <2>2. CASE Fill
    <3>1. writer["callback"].at = "idle"
      BY <2>2 DEF Fill, IInv
    <3>2. callback' = "logging" \/ (callback' = "none" /\ UNCHANGED writer)
      BY <2>2 DEF Fill, log
    <3>3. driver = "started"
      BY <2>2 DEF Fill, IInv
    <3>4. QED
      BY <2>1, <3>1, <3>2, <3>3 DEF IInv
  <2>3. CASE SwitchReturns
    BY <2>1, <2>3 DEF SwitchReturns, log, IInv
  <2>4. QED
    BY <1>3, <2>2, <2>3 DEF Driver
<1>4. CASE Lease \/ TryLock \/ Leased \/ OwnsLock \/ Return \/ BufferSwitch \/ AsioMessage \/ Plays \/ Outside
  BY <1>4
     DEF IInv, Lease, TryLock, Leased, OwnsLock, Return, At, BufferSwitch, AsioMessage,
         Plays, Outside, Shutdown, ProbeBegins, ProbeEnds, WarnOfTimeout, ChangeDefault,
         Notify, log, playback, Kept, Opened, asio, wasapi, windows, recovery, stream
<1>5. CASE Flush
  BY <1>5 DEF IInv, Flush, PopCopy, PopAdvance, TakeDropped, control, asio
<1>6. ASSUME NEW w \in Writers, Pushes(w)
      PROVE  OneWriter'
  <2>1. UNCHANGED <<pc, driver, callback>>
    BY <1>6 DEF Pushes, CopyMessage, Publish, control, asio
  <2>2. \A v \in Writers : writer'[v].at # "idle" => writer[v].at # "idle"
    <3>1. writer[w].at # "idle" /\ \A v \in Writers \ {w} : writer'[v] = writer[v]
      BY <1>6 DEF Pushes, CopyMessage, Publish, IInv, LogTyped
    <3>2. QED
      BY <3>1
  <2>3. QED
    BY <2>1, <2>2 DEF IInv
<1>7. CASE UNCHANGED vars
  BY <1>7 DEF IInv, vars, control, asio, log
<1>8. QED
  BY <1>1, <1>2, <1>3, <1>4, <1>5, <1>6, <1>7 DEF Next, Owner, Outside

LEMMA LeasingKept ==
  ASSUME IInv, [Next]_vars
  PROVE  Leasing'
<1> USE DEF Leasing, Waiting
<1>1. CASE Asio
  <2>1. UNCHANGED <<gate, status, running, cancelled>>
    BY <1>1
       DEF Asio, Kept, lease, AsioOpen, AsioPrepare, AsioStart, AsioRun, Hide, Join,
           AsioFailed, AsioRetry, AsioWait, FallBack
  <2>2. after' \in {after, "none", "AsioFailed", "Return", "AsioRetry"}
    BY <1>1
       DEF Asio, asio, AsioOpen, AsioPrepare, AsioStart, AsioRun, Hide, Join, AsioFailed,
           AsioRetry, AsioWait, FallBack
  <2>3. /\ pc \notin {"Lease", "TryLock", "Leased", "OwnsLock", "Return", "Done"}
        /\ pc' \notin {"Lease", "TryLock", "Leased", "Done"}
    BY <1>1
       DEF IInv, Asio, At, AsioOpen, AsioPrepare, AsioStart, AsioRun, Hide, Join,
           AsioFailed, AsioRetry, AsioWait, FallBack
  <2>4. QED
    BY <2>1, <2>2, <2>3 DEF IInv
<1>2. CASE Wasapi
  <2>1. UNCHANGED <<gate, status, running, cancelled, after>>
    BY <1>2
       DEF Wasapi, Begin, Register, Watch, Endpoint, Prepare, Start, Loop, Wait, Render,
           Close, Classify, Backoff, Pause, Opened, lease, asio
  <2>2. /\ pc \notin {"Lease", "TryLock", "Leased", "OwnsLock", "Return", "Done"}
        /\ pc' \notin {"Lease", "TryLock", "Leased", "Done"}
    BY <1>2
       DEF Wasapi, At, Fails, Begin, Register, Watch, Endpoint, Prepare, Start,
           Loop, Wait, Render, Close, Classify, Backoff, Pause
  <2>3. QED
    BY <2>1, <2>2 DEF IInv
<1>3. CASE Driver \/ BufferSwitch \/ AsioMessage \/ Plays \/ ChangeDefault \/ Notify
  BY <1>3
     DEF IInv, Driver, Fill, SwitchReturns, BufferSwitch, AsioMessage, Plays,
         ChangeDefault, Notify, Kept, lease, asio
<1>4. CASE Shutdown \/ ProbeBegins \/ ProbeEnds \/ WarnOfTimeout
  <2>1. UNCHANGED <<pc, status, after>>
    BY <1>4 DEF Shutdown, ProbeBegins, ProbeEnds, WarnOfTimeout, playback, asio
  <2>2. CASE Shutdown
    BY <2>1, <2>2 DEF IInv, Shutdown
  <2>3. CASE ProbeBegins \/ ProbeEnds \/ WarnOfTimeout
    BY <2>1, <2>3 DEF IInv, ProbeBegins, ProbeEnds, WarnOfTimeout
  <2>4. QED
    BY <1>4, <2>2, <2>3
<1>5. CASE Lease \/ TryLock \/ Leased \/ OwnsLock \/ Return
  BY <1>5 DEF IInv, Lease, TryLock, Leased, OwnsLock, Return, At, lease, playback, asio
<1>6. CASE Flush \/ \E w \in Writers : Pushes(w)
  BY <1>6
     DEF IInv, Flush, PopCopy, PopAdvance, TakeDropped, Pushes, CopyMessage, Publish,
         control, lease, asio
<1>7. CASE UNCHANGED vars
  BY <1>7 DEF IInv, vars, control, lease, asio
<1>8. QED
  BY <1>1, <1>2, <1>3, <1>4, <1>5, <1>6, <1>7 DEF Next, Owner

-----------------------------------------------------------------------------
(* The refinement                                                          *)

N    == Capacity + 1
Size == (write + N - read) % N

LEMMA SizeIs ==
  ASSUME LogTyped
  PROVE  /\ Size \in 0 .. Capacity
         /\ Size = IF read <= write THEN write - read ELSE write + N - read
<1>1. N \in Nat \ {0} /\ write \in 0 .. N - 1 /\ read \in 0 .. N - 1
  BY ConstantsAssumption DEF N, LogTyped, Positions
<1>2. PICK x \in 0 .. 2 * N - 1 : x = write + N - read
  BY <1>1
<1>3. x % N = IF x < N THEN x ELSE x - N
  BY <1>1, <1>2, Wrap
<1>4. Size = x % N
  BY <1>2 DEF Size
<1>5. QED
  BY <1>1, <1>2, <1>3, <1>4, ConstantsAssumption DEF N

\* Where the i-th pending message is.
Place(i) == (read + i - 1) % N

LEMMA PlaceIs ==
  ASSUME LogTyped, NEW i \in 1 .. N
  PROVE  /\ Place(i) \in Positions
         /\ Place(i) = IF read + i - 1 < N THEN read + i - 1 ELSE read + i - 1 - N
<1>1. N \in Nat \ {0} /\ read \in 0 .. N - 1
  BY ConstantsAssumption DEF N, LogTyped, Positions
<1>2. PICK x \in 0 .. 2 * N - 1 : x = read + i - 1
  BY <1>1
<1>3. x % N = IF x < N THEN x ELSE x - N
  BY <1>1, <1>2, Wrap
<1>4. Place(i) = x % N
  BY <1>2 DEF Place
<1>5. QED
  BY <1>1, <1>2, <1>3, <1>4, ConstantsAssumption DEF N, Positions

LEMMA PendingIs ==
  ASSUME LogTyped
  PROVE  /\ Pending = [i \in 1 .. Size |-> messages[Place(i)]]
         /\ Pending \in Seq(Messages \cup {"none"}) /\ Len(Pending) = Size
<1>1. Pending = [i \in 1 .. Size |-> messages[Place(i)]]
  BY DEF Pending, Size, Place, N
<1>2. Size \in Nat /\ \A i \in 1 .. Size : i \in 1 .. N
  BY SizeIs, ConstantsAssumption DEF N
<1>3. \A i \in 1 .. Size : messages[Place(i)] \in Messages \cup {"none"}
  BY <1>2, PlaceIs DEF LogTyped
<1>4. QED
  BY <1>1, <1>2, <1>3

LEMMA AppendIs ==
  ASSUME NEW S, NEW s \in Seq(S), NEW e \in S
  PROVE  Append(s, e) = [i \in 1 .. Len(s) + 1 |-> IF i = Len(s) + 1 THEN e ELSE s[i]]
<1> DEFINE t == [i \in 1 .. Len(s) + 1 |-> IF i = Len(s) + 1 THEN e ELSE s[i]]
<1>1. Len(s) \in Nat /\ \A i \in 1 .. Len(s) : s[i] \in S
  OBVIOUS
<1>2. t \in Seq(S) /\ Len(t) = Len(s) + 1
  BY <1>1
<1>3. /\ Append(s, e) \in Seq(S) /\ Len(Append(s, e)) = Len(s) + 1
      /\ \A i \in 1 .. Len(s) : Append(s, e)[i] = s[i]
      /\ Append(s, e)[Len(s) + 1] = e
  BY AppendProperties
<1>4. \A i \in 1 .. Len(t) : Append(s, e)[i] = t[i]
  BY <1>1, <1>2, <1>3
<1> HIDE DEF t
<1>5. Append(s, e) = t
  BY <1>2, <1>3, <1>4, SeqEqual
<1>6. QED
  BY <1>5 DEF t

LEMMA TailIs ==
  ASSUME NEW S, NEW s \in Seq(S), Len(s) > 0
  PROVE  Tail(s) = [i \in 1 .. Len(s) - 1 |-> s[i + 1]]
<1> DEFINE t == [i \in 1 .. Len(s) - 1 |-> s[i + 1]]
<1>1. /\ Len(s) - 1 \in Nat /\ \A i \in 1 .. Len(s) : s[i] \in S
      /\ \A i \in 1 .. Len(s) - 1 : i + 1 \in 1 .. Len(s)
  OBVIOUS
<1>2. t \in Seq(S) /\ Len(t) = Len(s) - 1
  BY <1>1
<1>3. /\ Tail(s) \in Seq(S) /\ Len(Tail(s)) = Len(s) - 1
      /\ \A i \in 1 .. Len(Tail(s)) : Tail(s)[i] = s[i + 1]
  <2>1. s # <<>>
    OBVIOUS
  <2>2. QED
    BY <2>1, HeadTailProperties
<1>4. \A i \in 1 .. Len(t) : Tail(s)[i] = t[i]
  BY <1>1, <1>2, <1>3
<1> HIDE DEF t
<1>5. Tail(s) = t
  BY <1>2, <1>3, <1>4, SeqEqual
<1>6. QED
  BY <1>5 DEF t

\* Copying into the free slot is not seen yet.
LEMMA CopyHidden ==
  ASSUME IInv, LogTyped', NEW w \in Writers, CopyMessage(w)
  PROVE  UNCHANGED <<Pending, lost, copied>>
<1>1. UNCHANGED <<write, read, lost, copied>>
  BY DEF CopyMessage
<1>2. writer[w].slot = write /\ messages' = [messages EXCEPT ![write] = writer[w].message]
  BY DEF CopyMessage, IInv, Writing
<1>3. ASSUME NEW i \in 1 .. Size
      PROVE  messages'[Place(i)] = messages[Place(i)]
  <2>1. i \in 1 .. N /\ Place(i) # write
    BY SizeIs, PlaceIs, ConstantsAssumption DEF IInv, N, LogTyped, Positions
  <2>2. QED
    BY <1>2, <2>1, PlaceIs DEF IInv, LogTyped
<1>4. Size' = Size /\ \A i \in 1 .. Size : Place(i)' = Place(i)
  BY <1>1 DEF Size, Place
<1>5. Pending' = [i \in 1 .. Size |-> messages'[Place(i)]]
  BY <1>1 DEF Pending, Size, Place, N
<1>6. Pending' = Pending
  BY <1>3, <1>5, PendingIs DEF IInv
<1>7. QED
  BY <1>1, <1>6

LEMMA PublishPuts ==
  ASSUME IInv, LogTyped', NEW w \in Writers, Publish(w)
  PROVE  Queue!Put
<1>1. UNCHANGED <<messages, read, lost, copied>> /\ write' = Following(write)
  BY DEF Publish, IInv, Writing
<1>2. /\ writer[w].message \in Messages /\ messages[write] = writer[w].message
      /\ Following(write) # read
  BY DEF Publish, IInv, Writing, Room
<1>3. Size < Capacity /\ Size' = Size + 1
  <2>1. /\ write \in 0 .. Capacity /\ read \in 0 .. Capacity /\ Capacity \in Nat
        /\ write' = IF write = Capacity THEN 0 ELSE write + 1
        /\ write' # read
    BY <1>1, <1>2, FollowingTyped, ConstantsAssumption DEF IInv, LogTyped, Positions
  <2>2. Size = IF read <= write THEN write - read ELSE write + N - read
    BY SizeIs DEF IInv
  <2>3. Size' = IF read <= write' THEN write' - read ELSE write' + N - read
    <3>1. (Size = IF read <= write THEN write - read ELSE write + N - read)'
      BY SizeIs, PTL
    <3>2. QED
      BY <3>1, <1>1 DEF N
  <2>4. QED
    BY <2>1, <2>2, <2>3 DEF N
<1>4. Place(Size + 1) = write
  <2>1. Size + 1 \in 1 .. N /\ write \in 0 .. Capacity /\ read \in 0 .. Capacity /\ Capacity \in Nat
    BY <1>3, SizeIs, ConstantsAssumption DEF IInv, N, LogTyped, Positions
  <2>2. Size = IF read <= write THEN write - read ELSE write + N - read
    BY SizeIs DEF IInv
  <2>3. Place(Size + 1) = IF read + Size < N THEN read + Size ELSE read + Size - N
    BY <2>1, PlaceIs, SizeIs DEF IInv
  <2>4. QED
    BY <2>1, <2>2, <2>3 DEF N
<1>5. Pending' = [i \in 1 .. Size + 1 |-> messages[Place(i)]]
  <2>1. Pending' = [i \in 1 .. Size' |-> messages'[(read' + i - 1) % N]]
    BY DEF Pending, Size, N
  <2>2. QED
    BY <1>1, <1>3, <2>1 DEF Place
<1>6. Pending' = Append(Pending, writer[w].message)
  <2>1. /\ Pending = [i \in 1 .. Size |-> messages[Place(i)]]
        /\ Pending \in Seq(Messages \cup {"none"}) /\ Len(Pending) = Size /\ Size \in Nat
    BY PendingIs, SizeIs DEF IInv
  <2>2. Append(Pending, writer[w].message) =
          [i \in 1 .. Size + 1 |-> IF i = Size + 1 THEN writer[w].message ELSE Pending[i]]
    BY <1>2, <2>1, AppendIs
  <2>3. ASSUME NEW i \in 1 .. Size + 1
        PROVE  messages[Place(i)] = IF i = Size + 1 THEN writer[w].message ELSE Pending[i]
    BY <1>2, <1>4, <2>1
  <2>4. QED
    BY <1>5, <2>2, <2>3
<1>7. Len(Pending) < Capacity
  BY <1>3, PendingIs DEF IInv
<1>8. QED
  BY <1>1, <1>2, <1>6, <1>7 DEF Queue!Put

LEMMA FullLoses ==
  ASSUME IInv, NEW w \in Writers, NEW m \in Messages, Log(w, m)
  PROVE  Queue!Lose \/ UNCHANGED <<Pending, lost, copied>>
<1>1. CASE Room
  BY <1>1 DEF Log, Pending
<1>2. CASE ~Room
  <2>1. UNCHANGED <<messages, write, read, copied>> /\ lost' = TRUE
    BY <1>2 DEF Log
  <2>2. Size = Capacity
    <3>1. write \in 0 .. Capacity /\ read \in 0 .. Capacity /\ Capacity \in Nat
      BY ConstantsAssumption DEF IInv, LogTyped, Positions
    <3>2. read = IF write = Capacity THEN 0 ELSE write + 1
      BY <1>2, FollowingTyped DEF IInv, LogTyped, Room
    <3>3. Size = IF read <= write THEN write - read ELSE write + N - read
      BY SizeIs DEF IInv
    <3>4. QED
      BY <3>1, <3>2, <3>3 DEF N
  <2>3. QED
    BY <2>1, <2>2, PendingIs DEF IInv, Queue!Lose, Pending
<1>3. QED
  BY <1>1, <1>2

LEMMA PopCopies ==
  ASSUME IInv, PopCopy
  PROVE  Queue!Copy
<1>1. copied = "none" /\ copied' = messages[read] /\ UNCHANGED <<Pending, lost>> /\ read # write
  BY DEF PopCopy, Pending
<1>2. Size > 0 /\ 1 \in 1 .. N /\ Place(1) = read
  <2>1. write \in 0 .. Capacity /\ read \in 0 .. Capacity /\ Capacity \in Nat /\ 1 \in 1 .. N
    BY ConstantsAssumption DEF IInv, LogTyped, Positions, N
  <2>2. QED
    BY <1>1, <2>1, SizeIs, PlaceIs DEF IInv, N
<1>3. Head(Pending) = messages[read] /\ Pending # <<>>
  <2>1. Pending = [i \in 1 .. Size |-> messages[Place(i)]] /\ Len(Pending) = Size /\ Size \in Nat
    BY PendingIs, SizeIs DEF IInv
  <2>2. Pending[1] = messages[read]
    BY <1>2, <2>1
  <2>3. QED
    BY <1>2, <2>1, <2>2
<1>4. QED
  BY <1>1, <1>3 DEF Queue!Copy

LEMMA PopTakes ==
  ASSUME IInv, LogTyped', PopAdvance
  PROVE  Queue!Take
<1>1. /\ UNCHANGED <<messages, write, lost>> /\ read' = Following(read)
      /\ copied # "none" /\ copied' = "none" /\ read # write
  BY DEF PopAdvance, IInv, Writing
<1>2. /\ write \in 0 .. Capacity /\ read \in 0 .. Capacity /\ Capacity \in Nat
      /\ read' = IF read = Capacity THEN 0 ELSE read + 1
  BY <1>1, FollowingTyped, ConstantsAssumption DEF IInv, LogTyped, Positions
<1>3. Size > 0 /\ Size' = Size - 1
  <2>1. Size = IF read <= write THEN write - read ELSE write + N - read
    BY SizeIs DEF IInv
  <2>2. Size' = IF read' <= write THEN write - read' ELSE write + N - read'
    <3>1. (Size = IF read <= write THEN write - read ELSE write + N - read)'
      BY SizeIs, PTL
    <3>2. QED
      BY <3>1, <1>1 DEF N
  <2>3. QED
    BY <1>1, <1>2, <2>1, <2>2 DEF N
<1>4. Size \in 0 .. Capacity
  BY SizeIs DEF IInv
<1>5. ASSUME NEW i \in 1 .. Size - 1
      PROVE  (read' + i - 1) % N = Place(i + 1)
  <2>1. /\ i \in 1 .. N /\ i + 1 \in 1 .. N /\ N \in Nat \ {0} /\ N = Capacity + 1
    BY <1>2, <1>4 DEF N
  <2>2. PICK x \in 0 .. 2 * N - 1 : x = read' + i - 1
    BY <1>2, <2>1
  <2>3. x % N = IF x < N THEN x ELSE x - N
    BY <2>1, Wrap
  <2>4. Place(i + 1) = IF read + i < N THEN read + i ELSE read + i - N
    BY <2>1, <1>2, PlaceIs DEF IInv
  <2>5. QED
    BY <1>2, <2>1, <2>2, <2>3, <2>4
<1>6. Pending' = [i \in 1 .. Size - 1 |-> messages[Place(i + 1)]]
  <2>1. Pending' = [i \in 1 .. Size' |-> messages'[(read' + i - 1) % N]]
    BY DEF Pending, Size, N
  <2>2. QED
    BY <1>1, <1>3, <1>5, <2>1
<1>7. Pending' = Tail(Pending)
  <2>1. /\ Pending = [i \in 1 .. Size |-> messages[Place(i)]]
        /\ Pending \in Seq(Messages \cup {"none"}) /\ Len(Pending) = Size /\ Size \in Nat
    BY PendingIs, SizeIs DEF IInv
  <2>2. Tail(Pending) = [i \in 1 .. Size - 1 |-> Pending[i + 1]]
    BY <1>3, <2>1, TailIs
  <2>3. \A i \in 1 .. Size - 1 : Pending[i + 1] = messages[Place(i + 1)]
    BY <2>1
  <2>4. QED
    BY <1>6, <2>2, <2>3
<1>8. QED
  BY <1>1, <1>7 DEF Queue!Take

-----------------------------------------------------------------------------
(* The theorems                                                            *)

LEMMA InitIInv == Init => IInv
<1> SUFFICES ASSUME Init PROVE IInv
  OBVIOUS
<1>1. 0 \in Positions
  BY ConstantsAssumption DEF Positions
<1>2. LogTyped
  BY <1>1 DEF Init, LogTyped, NoWrite
<1>3. OneWriter /\ Writing
  BY DEF Init, OneWriter, Writing, Writers, NoWrite
<1>4. Leasing
  BY DEF Init, Leasing, Waiting
<1>5. QED
  BY <1>2, <1>3, <1>4 DEF IInv

LEMMA NextIInv == IInv /\ [Next]_vars => IInv'
  BY LogTypedKept, OneWriterKept, WritingKept, LeasingKept DEF IInv

\* The invariant holds of every behaviour of the audio output.
THEOREM Invariance == Spec => []IInv
  BY InitIInv, NextIInv, PTL DEF Spec

\* For every capacity, and however ASIO and WASAPI take turns, the log implements
\* the bounded queue whose losses are reported.
THEOREM Refinement == Spec => ImplementsMessageQueue
<1>1. Init => Queue!Init
  <2>1. ASSUME Init PROVE Pending = <<>>
    <3>1. IInv /\ read = write
      BY <2>1, InitIInv DEF Init
    <3>2. Size = 0
      BY <3>1, SizeIs, ConstantsAssumption DEF IInv, LogTyped, Positions
    <3>3. QED
      BY <3>1, <3>2, PendingIs DEF IInv
  <2>2. QED
    BY <2>1 DEF Init, Queue!Init
<1>2. IInv /\ IInv' /\ [Next]_vars => [Queue!Next]_(Queue!vars)
  <2> SUFFICES ASSUME IInv, IInv', [Next]_vars PROVE [Queue!Next]_(Queue!vars)
    OBVIOUS
  <2> USE DEF Queue!Next, Queue!vars
  <2>1. CASE UNCHANGED log
    BY <2>1 DEF log, Pending
  <2>2. ASSUME NEW w \in Writers, NEW m \in Messages, Log(w, m)
        PROVE  [Queue!Next]_(Queue!vars)
    BY <2>2, FullLoses
  <2>3. ASSUME NEW w \in Writers, CopyMessage(w)
        PROVE  [Queue!Next]_(Queue!vars)
    BY <2>3, CopyHidden DEF IInv
  <2>4. ASSUME NEW w \in Writers, Publish(w)
        PROVE  [Queue!Next]_(Queue!vars)
    BY <2>4, PublishPuts DEF IInv
  <2>5. CASE PopCopy
    BY <2>5, PopCopies
  <2>6. CASE PopAdvance
    BY <2>6, PopTakes DEF IInv
  <2>7. CASE TakeDropped
    BY <2>7 DEF TakeDropped, Pending, Queue!Report
  <2>8. QED
    BY <2>1, <2>2, <2>3, <2>4, <2>5, <2>6, <2>7, Steps DEF LogStep
<1>3. QED
  BY <1>1, <1>2, Invariance, PTL DEF Spec, ImplementsMessageQueue, Queue!Spec

\* For every number of attempts and changes: an output told to stop while it waited for
\* the gate, or timed out there, enters no driver, and none is entered without the gate.
THEOREM DriversLeasedHolds == Spec => []DriversLeased
<1>1. IInv => DriversLeased
  BY DEF IInv, Leasing, DriversLeased, InDriver, WasapiRun, Waiting
<1>2. QED
  BY <1>1, Invariance, PTL
=============================================================================
