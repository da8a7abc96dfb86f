------------------------- MODULE RecordingPauseProofs -------------------------
(***************************************************************************)
(* The safety properties of RecordingPause, for every time base, sample    *)
(* rate, picture and packet length, and any number of pauses and packets.  *)
(***************************************************************************)
EXTENDS RecordingPause, SequenceTheorems, TLAPS

-----------------------------------------------------------------------------
(* PCM frames and ticks                                                    *)

LEMMA Quotient ==
  ASSUME NEW a \in Int, NEW b \in Nat \ {0}
  PROVE  /\ a \div b \in Int
         /\ b * (a \div b) <= a
         /\ a < b * (a \div b) + b
  OBVIOUS

LEMMA Cancel ==
  ASSUME NEW a \in Int, NEW b \in Int, NEW c \in Nat \ {0}, c * a < c * b
  PROVE  a < b
  OBVIOUS

LEMMA TicksAre ==
  ASSUME NEW n \in Nat
  PROVE  /\ Ticks(n) \in Nat
         /\ SampleRate * Ticks(n) <= n * TimeBase
         /\ n * TimeBase < SampleRate * Ticks(n) + SampleRate
<1>1. PICK a \in Nat : a = n * TimeBase
  BY ScaleAssumption
<1>2. PICK r \in Nat : r = SampleRate /\ r # 0
  BY ScaleAssumption
<1>3. a \div r \in Nat
  BY <1>2
<1>4. r * (a \div r) <= a /\ a < r * (a \div r) + r
  BY <1>2, Quotient
<1>5. Ticks(n) = a \div r
  BY <1>1, <1>2 DEF Ticks
<1>6. QED
  BY <1>1, <1>2, <1>3, <1>4, <1>5

\* Fewer frames do not last longer.
LEMMA TicksMonotone ==
  ASSUME NEW m \in Nat, NEW n \in Nat, m <= n
  PROVE  Ticks(m) <= Ticks(n)
<1>1. m * TimeBase <= n * TimeBase
  BY ScaleAssumption
<1>2. /\ SampleRate * Ticks(m) <= m * TimeBase
      /\ n * TimeBase < SampleRate * Ticks(n) + SampleRate
      /\ Ticks(m) \in Nat /\ Ticks(n) \in Nat
  BY TicksAre
<1>3. m * TimeBase \in Int /\ n * TimeBase \in Int
  BY ScaleAssumption
<1>4. SampleRate * (Ticks(n) + 1) = SampleRate * Ticks(n) + SampleRate
  BY <1>2, ScaleAssumption
<1>5. SampleRate * Ticks(m) \in Int /\ SampleRate * (Ticks(n) + 1) \in Int
  BY <1>2, ScaleAssumption
<1>6. SampleRate * Ticks(m) < SampleRate * (Ticks(n) + 1)
  <2>1. \A a, b, c, d \in Int : a <= b /\ b <= c /\ c < d => a < d
    OBVIOUS
  <2>2. QED
    BY <1>1, <1>2, <1>3, <1>4, <1>5, <2>1
<1>7. Ticks(m) < Ticks(n) + 1
  BY <1>2, <1>6, Cancel, ScaleAssumption
<1>8. QED
  BY <1>2, <1>7

\* The frames skipped reach up to `first', whatever the rounding.
LEMMA SkipReaches ==
  ASSUME NEW t \in Int, NEW first \in Int
  PROVE  /\ Skip(t, first) \in Nat
         /\ t + Ticks(Skip(t, first)) >= first
<1>1. CASE t >= first
  <2>1. Skip(t, first) = 0 /\ Ticks(0) \in Nat
    BY <1>1, TicksAre DEF Skip
  <2>2. QED
    BY <1>1, <2>1
<1>2. CASE t < first
  <2>1. PICK d \in Nat : d = first - t /\ d > 0
    BY <1>2
  <2>2. PICK r \in Nat, b \in Nat : r = SampleRate /\ b = TimeBase /\ r > 0 /\ b > 0
    BY ScaleAssumption
  <2>3. PICK a \in Nat : a = d * r
    OBVIOUS
  <2>4. a + b - 1 \in Nat
    BY <2>2
  <2>5. PICK s \in Int : s = (a + b - 1) \div b
    BY <2>2, <2>4, Quotient
  <2>6. s \in Nat
    BY <2>2, <2>4, <2>5
  <2>7. a + b - 1 < b * s + b
    BY <2>2, <2>4, <2>5, Quotient
  <2>8. a <= b * s
    <3>1. b * s \in Int
      BY <2>6
    <3>2. QED
      BY <2>7, <3>1
  <2>9. Skip(t, first) = s
    BY <1>2, <2>1, <2>2, <2>3, <2>5 DEF Skip
  <2>10. Ticks(s) \in Nat /\ s * b < r * Ticks(s) + r
    BY <2>2, <2>6, TicksAre
  <2>11. PICK u \in Nat : u = Ticks(s)
    BY <2>10
  <2>12. r * d < r * (u + 1)
    <3>1. r * d = a /\ r * (u + 1) = r * u + r /\ s * b = b * s
      BY <2>3, <2>6
    <3>2. r * d \in Int /\ r * (u + 1) \in Int /\ b * s \in Int
      BY <2>6
    <3>3. \A x, y, z \in Int : x <= y /\ y < z => x < z
      OBVIOUS
    <3>4. QED
      BY <2>8, <2>10, <2>11, <3>1, <3>2, <3>3
  <2>13. d < u + 1
    BY <2>2, <2>12, Cancel
  <2>14. QED
    BY <2>1, <2>6, <2>9, <2>11, <2>13
<1>3. QED
  BY <1>1, <1>2

-----------------------------------------------------------------------------
(* RecordingPauseTimeline::Map                                             *)

LEMMA LargerIs ==
  ASSUME NEW a \in Int, NEW b \in Int
  PROVE  Larger(a, b) \in Int /\ Larger(a, b) >= a /\ Larger(a, b) >= b /\ Larger(a, b) \in {a, b}
  BY DEF Larger

\* The anchored timeline: the same, the recording's first, or that of a new epoch.
SameEpoch(k, a) ==
  k.generation = timeline.generation /\ timeline.cut >= 0 /\ a = timeline

FirstAnchor(k, a) ==
  /\ k.generation = timeline.generation /\ timeline.cut < 0
  /\ a = [timeline EXCEPT !.offset = k.time, !.cut = k.time]

NewEpoch(p, k, a) ==
  /\ k.generation > timeline.generation /\ p = "video"
  /\ a = [timeline EXCEPT !.generation = k.generation, !.cut = k.time,
                          !.offset = k.time - Larger(timeline.end["video"], timeline.end["audio"])]

LEMMA AnchorIs ==
  ASSUME timeline \in Timelines, NEW p \in Pins, NEW k \in Packets, Admissible(timeline, p, k)
  PROVE  LET a == Anchor(timeline, k) IN
         /\ a \in Timelines /\ a.cut >= 0 /\ a.end = timeline.end /\ a.generation = k.generation
         /\ SameEpoch(k, a) \/ FirstAnchor(k, a) \/ NewEpoch(p, k, a)
<1> DEFINE a == Anchor(timeline, k)
<1>1. /\ k.duration > 0 /\ k.time \in Nat /\ k.generation \in Nat
      /\ k.generation >= timeline.generation
      /\ k.generation = timeline.generation \/ p = "video"
  BY DEF Admissible, Packets
<1>2. timeline.end["video"] \in Int /\ timeline.end["audio"] \in Int /\ timeline.generation \in Int
  BY DEF Timelines, Pins
<1>3. CASE k.generation = timeline.generation /\ timeline.cut >= 0
  <2>1. a = timeline
    BY <1>3 DEF Anchor
  <2>2. QED
    BY <1>3, <2>1 DEF SameEpoch
<1>4. CASE k.generation = timeline.generation /\ ~(timeline.cut >= 0)
  <2>1. a = [timeline EXCEPT !.offset = k.time, !.cut = k.time]
    BY <1>4 DEF Anchor
  <2>2. a \in Timelines /\ a.cut >= 0 /\ a.end = timeline.end /\ a.generation = k.generation
    <3>1. k.time \in Int /\ k.time >= 0
      BY <1>1
    <3>2. /\ a.offset = k.time /\ a.cut = k.time /\ a.end = timeline.end
          /\ a.generation = timeline.generation /\ a \in Timelines
      BY <2>1, <3>1 DEF Timelines
    <3>3. QED
      BY <1>4, <3>1, <3>2
  <2>3. timeline.cut < 0
    BY <1>4 DEF Timelines
  <2>4. QED
    BY <1>4, <2>1, <2>2, <2>3 DEF FirstAnchor
<1>5. CASE k.generation # timeline.generation
  <2>1. PICK e \in Int : e = Larger(timeline.end["video"], timeline.end["audio"])
    BY <1>2, LargerIs
  <2>2. k.generation > timeline.generation /\ p = "video"
    BY <1>1, <1>2, <1>5
  <2>3. a = [timeline EXCEPT !.generation = k.generation, !.cut = k.time, !.offset = k.time - e]
    <3> DEFINE c == [timeline EXCEPT !.generation = k.generation, !.cut = k.time, !.offset = k.time - e]
    <3>1. c.cut = k.time
      BY DEF Timelines
    <3>2. k.time >= 0
      BY <1>1
    <3>3. a = IF c.cut >= 0 THEN c ELSE [c EXCEPT !.offset = k.time, !.cut = k.time]
      BY <1>5, <2>1 DEF Anchor
    <3>4. QED
      BY <3>1, <3>2, <3>3
  <2>4. a \in Timelines /\ a.cut >= 0 /\ a.end = timeline.end /\ a.generation = k.generation
    <3>1. k.time \in Int /\ k.time >= 0 /\ k.time - e \in Int /\ k.generation \in Nat
      BY <1>1
    <3>2. /\ a.cut = k.time /\ a.end = timeline.end
          /\ a.generation = k.generation /\ a \in Timelines
      BY <2>3, <3>1 DEF Timelines
    <3>3. QED
      BY <3>1, <3>2
  <2>5. QED
    BY <2>1, <2>2, <2>3, <2>4 DEF NewEpoch
<1>6. QED
  BY <1>3, <1>4, <1>5

LEMMA TicksZero == Ticks(0) = 0
<1>1. PICK r \in Nat : r = SampleRate /\ r > 0
  BY ScaleAssumption
<1>2. 0 * TimeBase = 0
  BY ScaleAssumption
<1>3. 0 \div r = 0
  BY <1>1
<1>4. QED
  BY <1>1, <1>2, <1>3 DEF Ticks

\* A packet that is written: where, and what it makes of the timeline.
Keeps(p, k, a, m) ==
  /\ m.keep /\ m.skip \in Nat /\ (p = "video" => m.skip = 0)
  /\ m.time \in Nat /\ m.time = k.time + Ticks(m.skip) - a.offset
  /\ m.duration \in Nat /\ m.duration = k.duration - Ticks(m.skip) /\ m.duration > 0
  /\ p = "audio" => m.time >= a.end["audio"] /\ m.time >= a.cut - a.offset
  /\ m.timeline = Extended(a, p, m.time + m.duration)

Drops(p, k, a, m) ==
  ~m.keep /\ m.timeline = a /\ (p = "video" => k.time < a.offset)

LEMMA MoveKeeps ==
  ASSUME NEW a, NEW p, NEW t, NEW l, NEW skip, ~(t < a.offset \/ l <= 0)
  PROVE  Move(a, p, t, l, skip) = Kept(a, p, t - a.offset, l, skip)
  BY Zenon DEF Move

LEMMA MapMoves ==
  ASSUME NEW tl, NEW p, NEW k, Admissible(tl, p, k),
         NEW a, NEW s, a = Anchor(tl, k), s = Trim(a, p, k)
  PROVE  Map(tl, p, k) = Move(a, p, k.time + Ticks(s), k.duration - Ticks(s), s)
  BY DEF Map

LEMMA MapIs ==
  ASSUME timeline \in Timelines, NEW p \in Pins, NEW k \in Packets, NEW m, m = Map(timeline, p, k)
  PROVE  \/ ~m.keep /\ m.timeline = timeline
         \/ \E a \in Timelines :
              /\ a.cut >= 0 /\ a.end = timeline.end /\ a.generation = k.generation
              /\ k.duration > 0
              /\ SameEpoch(k, a) \/ FirstAnchor(k, a) \/ NewEpoch(p, k, a)
              /\ Keeps(p, k, a, m) \/ Drops(p, k, a, m)
<1>1. CASE ~Admissible(timeline, p, k)
  BY <1>1 DEF Map, Dropped
<1>2. CASE Admissible(timeline, p, k)
  <2>1. PICK a \in Timelines :
          /\ a = Anchor(timeline, k)
          /\ a.cut >= 0 /\ a.end = timeline.end /\ a.generation = k.generation
          /\ SameEpoch(k, a) \/ FirstAnchor(k, a) \/ NewEpoch(p, k, a)
    BY <1>2, AnchorIs
  <2>2. k.duration \in Nat /\ k.duration > 0 /\ k.time \in Nat
    BY <1>2 DEF Admissible, Packets
  <2>3. a.offset \in Int /\ a.cut \in Int /\ a.end["audio"] \in Nat
    BY DEF Timelines, Pins
  <2>4. PICK first \in Int :
          /\ first = Larger(a.cut, a.end["audio"] + a.offset)
          /\ first >= a.cut /\ first >= a.end["audio"] + a.offset
    <3>1. PICK b \in Int : b = a.end["audio"] + a.offset
      BY <2>3
    <3>2. Larger(a.cut, b) \in Int /\ Larger(a.cut, b) >= a.cut /\ Larger(a.cut, b) >= b
      BY <2>3, LargerIs
    <3>3. QED
      BY <3>1, <3>2
  <2>5. PICK skip \in Nat :
          /\ skip = (IF p = "video" THEN 0 ELSE Skip(k.time, first))
          /\ Ticks(skip) \in Nat
          /\ p = "video" => skip = 0 /\ Ticks(skip) = 0
          /\ p = "audio" => k.time + Ticks(skip) >= first
    <3> DEFINE skip == IF p = "video" THEN 0 ELSE Skip(k.time, first)
    <3>1. Skip(k.time, first) \in Nat /\ k.time + Ticks(Skip(k.time, first)) >= first
      <4>1. k.time \in Int
        BY <2>2
      <4>2. QED
        BY <4>1, SkipReaches
    <3>2. skip \in Nat /\ (p = "video" => skip = 0) /\ (p = "audio" => skip = Skip(k.time, first))
      BY <3>1 DEF Pins
    <3>3. Ticks(skip) \in Nat
      BY <3>2, TicksAre
    <3> HIDE DEF skip
    <3>4. (p = "video" => Ticks(skip) = 0) /\ (p = "audio" => k.time + Ticks(skip) >= first)
      BY <3>1, <3>2, TicksZero, Zenon
    <3>5. QED
      BY <3>2, <3>3, <3>4 DEF skip
  <2>6. PICK d \in Nat : d = Ticks(skip)
    BY <2>5
  <2>7. m = Move(a, p, k.time + d, k.duration - d, skip)
    <3>1. skip = Trim(a, p, k)
      BY <2>4, <2>5 DEF Trim
    <3>2. m = Move(a, p, k.time + Ticks(skip), k.duration - Ticks(skip), skip)
      BY <1>2, <2>1, <3>1, MapMoves
    <3>3. QED
      BY <2>6, <3>2
  <2>8. CASE k.time + d < a.offset \/ k.duration - d <= 0
    <3>1. ~m.keep /\ m.timeline = a
      BY <2>7, <2>8 DEF Move, Dropped
    <3>2. p = "video" => k.time < a.offset
      BY <2>2, <2>5, <2>6, <2>8
    <3>3. QED
      BY <2>1, <2>2, <3>1, <3>2 DEF Drops
  <2>9. CASE ~(k.time + d < a.offset \/ k.duration - d <= 0)
    <3>1. /\ m.keep /\ m.time = k.time + d - a.offset /\ m.duration = k.duration - d /\ m.skip = skip
          /\ m.timeline = Extended(a, p, m.time + m.duration)
      <4>1. PICK x \in Int, l \in Int : x = k.time + d /\ l = k.duration - d
        BY <2>2
      <4>2. PICK o \in Int : o = x - a.offset
        BY <2>3
      <4>3. m = Move(a, p, x, l, skip)
        BY <2>7, <4>1
      <4>4. ~(x < a.offset \/ l <= 0)
        BY <2>9, <4>1
      <4>5. Move(a, p, x, l, skip) = Kept(a, p, x - a.offset, l, skip)
        BY <4>4, MoveKeeps, Zenon
      <4>6. m = Kept(a, p, o, l, skip)
        BY <4>2, <4>3, <4>5
      <4>7. m.keep
        BY <4>6 DEF Kept
      <4>8. m.time = o /\ m.duration = l /\ m.skip = skip
        BY <4>6 DEF Kept
      <4>9. m.timeline = Extended(a, p, o + l)
        BY <4>6 DEF Kept
      <4>10. m.timeline = Extended(a, p, m.time + m.duration)
        BY <4>8, <4>9
      <4>11. m.time = k.time + d - a.offset /\ m.duration = k.duration - d
        BY <2>2, <2>3, <4>1, <4>2, <4>8
      <4>12. QED
        BY <4>7, <4>8, <4>10, <4>11
    <3>2. m.time \in Nat /\ m.duration \in Nat /\ m.duration > 0
      BY <2>2, <2>3, <2>9, <3>1
    <3>3. p = "audio" => m.time >= a.end["audio"] /\ m.time >= a.cut - a.offset
      BY <2>2, <2>3, <2>4, <2>5, <2>6, <3>1
    <3>4. Keeps(p, k, a, m)
      BY <2>5, <2>6, <3>1, <3>2, <3>3 DEF Keeps
    <3>5. QED
      BY <2>1, <2>2, <3>4
  <2>10. QED
    BY <2>8, <2>9
<1>3. QED
  BY <1>1, <1>2

LEMMA ExtendedIs ==
  ASSUME NEW a \in Timelines, NEW p \in Pins, NEW e \in Nat
  PROVE  LET t == Extended(a, p, e) IN
         /\ t \in Timelines /\ t.generation = a.generation /\ t.offset = a.offset /\ t.cut = a.cut
         /\ t.end[p] \in Nat /\ t.end[p] >= e /\ t.end[p] >= a.end[p] /\ t.end[p] \in {e, a.end[p]}
         /\ \A q \in Pins \ {p} : t.end[q] = a.end[q]
<1> DEFINE t == Extended(a, p, e)
<1>1. a.end \in [Pins -> Nat]
  BY DEF Timelines
<1>2. PICK l \in Nat : l = Larger(a.end[p], e) /\ l >= e /\ l >= a.end[p] /\ l \in {e, a.end[p]}
  <2>1. a.end[p] \in Nat
    BY <1>1
  <2>2. QED
    BY <2>1 DEF Larger
<1>3. t = [a EXCEPT !.end = [a.end EXCEPT ![p] = l]]
  BY <1>2 DEF Extended
<1>4. [a.end EXCEPT ![p] = l] \in [Pins -> Nat]
  BY <1>1
<1>5. /\ t \in Timelines /\ t.generation = a.generation /\ t.offset = a.offset /\ t.cut = a.cut
      /\ t.end = [a.end EXCEPT ![p] = l]
  BY <1>3, <1>4 DEF Timelines
<1>6. t.end[p] = l /\ \A q \in Pins \ {p} : t.end[q] = a.end[q]
  BY <1>1, <1>5
<1>7. QED
  BY <1>2, <1>5, <1>6

-----------------------------------------------------------------------------
(* The steps that write nothing                                            *)

Observed ==
  Anchored /\ NeverFails /\ EpochsDoNotOverlap /\ EpochsInStep /\ AudioDisjoint

LEMMA InitIInv == Init => IInv
<1> SUFFICES ASSUME Init PROVE IInv
  OBVIOUS
<1>1. \A p \in Pins : ring[p] = <<>> /\ tagged[p] = <<>> /\ out[p] = <<>>
  BY DEF Init
<1>2. TypeOK
  <2>1. source \in [Pins -> Nat]
    BY StreamAssumption DEF Init
  <2>2. timeline \in Timelines
    BY DEF Init, Timelines
  <2>3. /\ pauseGeneration \in Nat /\ stop \in BOOLEAN /\ has \in SUBSET Pins
        /\ delivered \in [Pins -> Nat] /\ last \in [Pins -> Int]
    <3>1. pauseGeneration = 0 /\ stop = FALSE /\ has = {}
      BY DEF Init
    <3>2. stop \in BOOLEAN
      BY <3>1, Zenon
    <3>3. delivered \in [Pins -> Nat] /\ last \in [Pins -> Int]
      BY DEF Init
    <3>4. QED
      BY <3>1, <3>2, <3>3
  <2>4. tagged \in [Pins -> Seq(Packets)] /\ ring \in [Pins -> Seq(Packets)]
    BY DEF Init
  <2>5. out \in [Pins -> Seq(Records)]
    BY DEF Init
  <2>6. QED
    BY <2>1, <2>2, <2>3, <2>4, <2>5 DEF TypeOK
<1>3. \A p \in Pins : DOMAIN Coming(p) = {}
  <2>1. ASSUME NEW p \in Pins PROVE Coming(p) = <<>>
    <3>1. Coming(p) = <<>> \o <<>>
      BY <1>1 DEF Coming
    <3>2. QED
      BY <3>1
  <2>2. QED
    BY <2>1
<1>4. "video" \in Pins /\ "audio" \in Pins
  BY DEF Pins
<1>5. Arrivals
  BY <1>3, <1>4 DEF Arrivals, Init
<1>6. timeline.end["video"] = 0 /\ timeline.generation = 0
  BY <1>4 DEF Init
<1>7. PicturesAhead
  BY <1>6 DEF PicturesAhead
<1>8. \A p \in Pins : Written(p) = {} /\ DOMAIN out[p] = {}
  BY <1>1 DEF Written
<1>9. \A p \in Pins : last[p] < timeline.end[p]
  BY DEF Init
<1>10. Anchored
  BY <1>6, <1>8, <1>9 DEF Anchored
<1>11. NeverFails /\ EpochsDoNotOverlap /\ EpochsInStep /\ AudioDisjoint
  BY <1>4, <1>8 DEF NeverFails, EpochsDoNotOverlap, EpochsInStep, AudioDisjoint, Init
<1>12. QED
  BY <1>2, <1>5, <1>7, <1>10, <1>11 DEF IInv

LEMMA NothingWritten ==
  ASSUME IInv, UNCHANGED <<timeline, last, out>>, failed' => failed
  PROVE  Observed'
<1>1. Anchored'
  BY DEF IInv, Anchored, Written, Base
<1>2. NeverFails'
  BY DEF IInv, NeverFails
<1>3. EpochsDoNotOverlap'
  BY DEF IInv, EpochsDoNotOverlap, Written
<1>4. EpochsInStep'
  BY DEF IInv, EpochsInStep, Written
<1>5. AudioDisjoint'
  BY DEF IInv, AudioDisjoint
<1>6. QED
  BY <1>1, <1>2, <1>3, <1>4, <1>5 DEF Observed

\* A step that leaves the packets on their way as they are leaves them in order.
LEMMA NothingDelivered ==
  ASSUME IInv, \A p \in Pins : Coming(p)' = Coming(p), UNCHANGED <<source, timeline>>,
         \A p \in has' : ring'[p] # <<>>
  PROVE  Arrivals' /\ PicturesAhead'
<1>1. Coming("video")' = Coming("video") /\ Coming("audio")' = Coming("audio")
  BY DEF Pins
<1>2. Arrivals'
  BY <1>1 DEF IInv, Arrivals
<1>3. PicturesAhead'
  BY <1>1 DEF IInv, PicturesAhead
<1>4. QED
  BY <1>2, <1>3

LEMMA QuietKeepsIInv ==
  ASSUME IInv, Look \/ Hold \/ SetPaused \/ Stop
  PROVE  IInv'
<1>1. UNCHANGED <<source, tagged, ring, timeline, last, failed, out, delivered>>
  BY DEF Look, Hold, SetPaused, Stop
<1>2. \A p \in Pins : Coming(p)' = Coming(p)
  BY <1>1 DEF Coming
<1>3. has' \in SUBSET Pins /\ \A p \in has' : ring[p] # <<>>
  BY DEF IInv, TypeOK, Arrivals, Look, Hold, SetPaused, Stop
<1>4. pauseGeneration' \in Nat /\ stop' \in BOOLEAN
  <2>1. pauseGeneration \in Nat /\ stop \in BOOLEAN
    BY DEF IInv, TypeOK
  <2>2. CASE Look \/ Hold
    BY <2>1, <2>2 DEF Look, Hold
  <2>3. CASE SetPaused
    BY <2>1, <2>3 DEF SetPaused
  <2>4. CASE Stop
    BY <2>1, <2>4 DEF Stop
  <2>5. QED
    BY <2>2, <2>3, <2>4
<1>5. TypeOK'
  BY <1>1, <1>3, <1>4 DEF IInv, TypeOK
<1>6. QED
  BY <1>1, <1>2, <1>3, <1>5, NothingWritten, NothingDelivered DEF IInv, Observed

LEMMA PublishKeepsIInv ==
  ASSUME IInv, NEW p \in Pins, Publish(p)
  PROVE  IInv'
<1>1. ring \in [Pins -> Seq(Packets)] /\ tagged \in [Pins -> Seq(Packets)]
  BY DEF IInv, TypeOK
<1>2. /\ ring' = [ring EXCEPT ![p] = @ \o tagged[p]] /\ tagged' = [tagged EXCEPT ![p] = <<>>]
      /\ tagged[p] # <<>>
      /\ UNCHANGED <<pauseGeneration, stop, source, delivered, has, timeline, last, failed, out>>
  BY DEF Publish
<1>3. ring[p] \in Seq(Packets) /\ tagged[p] \in Seq(Packets)
  BY <1>1
<1>4. ring[p] \o tagged[p] \in Seq(Packets) /\ <<>> \in Seq(Packets)
  BY <1>3
<1>5. ring' \in [Pins -> Seq(Packets)] /\ tagged' \in [Pins -> Seq(Packets)]
  BY <1>1, <1>2, <1>4
<1>6. TypeOK'
  BY <1>2, <1>5 DEF IInv, TypeOK
<1>7. \A q \in Pins : Coming(q)' = Coming(q)
  <2>1. Coming(p)' = Coming(p)
    <3>1. ring'[p] = ring[p] \o tagged[p] /\ tagged'[p] = <<>>
      BY <1>1, <1>2
    <3>2. (ring[p] \o tagged[p]) \o <<>> = ring[p] \o tagged[p]
      BY <1>4
    <3>3. QED
      BY <3>1, <3>2 DEF Coming
  <2>2. ASSUME NEW q \in Pins, q # p PROVE Coming(q)' = Coming(q)
    BY <1>1, <1>2, <2>2 DEF Coming
  <2>3. QED
    BY <2>1, <2>2
<1>8. \A q \in has' : ring'[q] # <<>>
  <2>1. ring[p] \o tagged[p] # <<>>
    BY <1>2, <1>3
  <2>2. \A q \in has : q \in Pins /\ ring[q] # <<>>
    BY DEF IInv, Arrivals, TypeOK
  <2>3. QED
    BY <1>1, <1>2, <2>1, <2>2
<1>9. QED
  BY <1>2, <1>6, <1>7, <1>8, NothingWritten, NothingDelivered DEF IInv, Observed
-----------------------------------------------------------------------------
(* A sample enters its pin                                                 *)

LEMMA TagKeepsIInv ==
  ASSUME IInv, NEW p \in Pins, NEW step \in Nat, NEW frames \in Nat, Tag(p, step, frames),
         p = "video" => step > 0
  PROVE  IInv'
<1>1. /\ ring \in [Pins -> Seq(Packets)] /\ tagged \in [Pins -> Seq(Packets)]
      /\ source \in [Pins -> Nat] /\ delivered \in [Pins -> Nat] /\ pauseGeneration \in Nat
      /\ timeline \in Timelines
  BY DEF IInv, TypeOK
<1>2. PICK t \in Nat, d \in Nat :
        /\ t = (IF p = "video" THEN source[p] ELSE source[p] + step)
        /\ d = (IF p = "video" THEN step ELSE Ticks(frames))
  <2>1. source[p] \in Nat /\ Ticks(frames) \in Nat
    BY <1>1, TicksAre
  <2>2. QED
    BY <2>1
<1> DEFINE k == [time |-> t, duration |-> d, frames |-> frames, generation |-> pauseGeneration]
<1>3. /\ tagged[p] = <<>> /\ delivered' = [delivered EXCEPT ![p] = @ + 1]
      /\ source' = [source EXCEPT ![p] = t + d]
      /\ tagged' = (IF pauseGeneration % 2 = 1 THEN tagged ELSE [tagged EXCEPT ![p] = <<k>>])
      /\ UNCHANGED <<pauseGeneration, stop, ring, has, timeline, last, failed, out>>
  BY <1>2 DEF Tag
<1>4. k \in Packets /\ k.time = t /\ k.duration = d /\ k.frames = frames
  BY <1>1 DEF Packets
<1> HIDE DEF k
<1>5. TypeOK'
  <2>1. source' \in [Pins -> Nat] /\ delivered' \in [Pins -> Nat]
    BY <1>1, <1>3
  <2>2. tagged' \in [Pins -> Seq(Packets)]
    BY <1>1, <1>3, <1>4
  <2>3. QED
    BY <1>3, <2>1, <2>2 DEF IInv, TypeOK
<1>6. source'[p] = t + d /\ \A q \in Pins \ {p} : source'[q] = source[q]
  BY <1>1, <1>3
<1>7. \A q \in Pins : Coming(q) \in Seq(Packets)
  BY <1>1 DEF Coming
<1>8. \A q \in Pins \ {p} : Coming(q)' = Coming(q)
  BY <1>1, <1>3 DEF Coming
<1>9. Coming(p)' = Coming(p) \/ Coming(p)' = Append(Coming(p), k)
  <2>1. CASE pauseGeneration % 2 = 1
    BY <1>3, <2>1 DEF Coming
  <2>2. CASE pauseGeneration % 2 # 1
    <3>1. ring[p] \in Seq(Packets) /\ Coming(p) = ring[p] \o <<>>
      BY <1>1, <1>3 DEF Coming
    <3>2. Coming(p)' = ring[p] \o <<k>>
      BY <1>1, <1>3, <2>2 DEF Coming
    <3>3. ring[p] \o <<>> = ring[p] /\ ring[p] \o <<k>> = Append(ring[p], k)
      BY <3>1, <1>4
    <3>4. QED
      BY <3>1, <3>2, <3>3
  <2>3. QED
    BY <2>1, <2>2
<1>10. \A p_1 \in has' : ring'[p_1] # <<>>
  BY <1>3 DEF IInv, Arrivals
<1>11. CASE p = "video"
  <2>1. t = source["video"] /\ d > 0 /\ source'["video"] = t + d
    BY <1>2, <1>6, <1>11
  <2>2. Coming("audio")' = Coming("audio")
    BY <1>8, <1>11 DEF Pins
  <2>3. PICK s \in Seq(Packets) : s = Coming("video")
    BY <1>7 DEF Pins
  <2>4. PICK s2 : s2 = Coming("video")' /\ (s2 = s \/ s2 = Append(s, k))
    BY <1>9, <1>11, <2>3
  <2>5. /\ \A i \in DOMAIN s : s[i].duration > 0 /\ EndOf(s[i]) <= t
        /\ \A i, j \in DOMAIN s : i < j => EndOf(s[i]) <= s[j].time
    BY <2>1, <2>3 DEF IInv, Arrivals
  <2>6. \A i \in DOMAIN s : s[i].time \in Nat /\ EndOf(s[i]) \in Nat
    <3>1. \A i \in DOMAIN s : s[i] \in Packets
      BY <2>3
    <3>2. \A x \in Packets : x.time \in Nat /\ x.duration \in Nat
      BY DEF Packets
    <3>3. QED
      BY <3>1, <3>2 DEF EndOf
  <2>7. EndOf(k) = t + d
    BY <1>4 DEF EndOf
  <2>8. /\ \A i \in DOMAIN s2 : s2[i].duration > 0 /\ EndOf(s2[i]) <= t + d
        /\ \A i, j \in DOMAIN s2 : i < j => EndOf(s2[i]) <= s2[j].time
    <3>1. CASE s2 = s
      BY <3>1, <2>5, <2>6
    <3>2. CASE s2 = Append(s, k)
      <4>1. DOMAIN s2 = 1 .. Len(s) + 1 /\ DOMAIN s = 1 .. Len(s) /\ Len(s) \in Nat
        BY <2>3, <3>2, <1>4
      <4>2. s2[Len(s) + 1] = k /\ \A i \in DOMAIN s : s2[i] = s[i]
        BY <2>3, <3>2, <1>4
      <4>3. \A i \in DOMAIN s2 : i \in DOMAIN s \/ i = Len(s) + 1
        BY <4>1
      <4>4. \A i \in DOMAIN s2 : s2[i].duration > 0 /\ EndOf(s2[i]) <= t + d
        BY <1>4, <2>1, <2>5, <2>6, <2>7, <4>2, <4>3
      <4>5. \A i, j \in DOMAIN s2 : i < j => i \in DOMAIN s
        BY <4>1
      <4>6. \A i, j \in DOMAIN s2 : i < j => EndOf(s2[i]) <= s2[j].time
        BY <1>4, <2>5, <4>2, <4>3, <4>5
      <4>7. QED
        BY <4>4, <4>6
    <3>3. QED
      BY <2>4, <3>1, <3>2
  <2>9. Arrivals'
    <3>1. has' = has /\ \A q \in has' : ring'[q] # <<>>
      BY <1>3, <1>10
    <3>2. \A i \in DOMAIN Coming("audio") :
            Coming("audio")[i].duration = Ticks(Coming("audio")[i].frames)
      BY DEF IInv, Arrivals
    <3>3. QED
      BY <2>1, <2>2, <2>4, <2>8, <3>1, <3>2 DEF Arrivals
  <2>10. PicturesAhead'
    <3>1. PICK next \in Int : next = timeline.end["video"] + timeline.offset
      BY <1>1 DEF Timelines, Pins
    <3>2. timeline.end["video"] > 0 => t >= next /\ \A i \in DOMAIN s : s[i].time >= next
      BY <2>1, <2>3, <3>1 DEF IInv, PicturesAhead
    <3>3. timeline.end["video"] > 0 => t + d >= next /\ \A i \in DOMAIN s2 : s2[i].time >= next
      <4>1. CASE s2 = s
        BY <3>2, <4>1
      <4>2. CASE s2 = Append(s, k)
        <5>1. \A i \in DOMAIN s2 : (i \in DOMAIN s /\ s2[i] = s[i]) \/ s2[i] = k
          BY <2>3, <4>2, <1>4
        <5>2. QED
          BY <1>4, <3>2, <5>1
      <4>3. QED
        BY <2>4, <4>1, <4>2
    <3>4. QED
      BY <1>3, <2>1, <2>4, <3>1, <3>3 DEF PicturesAhead
  <2>11. QED
    BY <1>3, <1>5, <2>9, <2>10, NothingWritten DEF IInv, Observed
<1>12. CASE p = "audio"
  <2>1. d = Ticks(frames) /\ source'["video"] = source["video"]
    BY <1>2, <1>6, <1>12 DEF Pins
  <2>2. Coming("video")' = Coming("video")
    BY <1>8, <1>12 DEF Pins
  <2>3. PICK s \in Seq(Packets) : s = Coming("audio")
    BY <1>7 DEF Pins
  <2>4. PICK s2 : s2 = Coming("audio")' /\ (s2 = s \/ s2 = Append(s, k))
    BY <1>9, <1>12, <2>3
  <2>5. \A i \in DOMAIN s : s[i].duration = Ticks(s[i].frames)
    BY <2>3 DEF IInv, Arrivals
  <2>6. \A i \in DOMAIN s2 : s2[i].duration = Ticks(s2[i].frames)
    <3>1. CASE s2 = s
      BY <3>1, <2>5
    <3>2. CASE s2 = Append(s, k)
      <4>1. \A i \in DOMAIN s2 : (i \in DOMAIN s /\ s2[i] = s[i]) \/ s2[i] = k
        BY <2>3, <3>2, <1>4
      <4>2. QED
        BY <1>4, <2>1, <2>5, <4>1
    <3>3. QED
      BY <2>4, <3>1, <3>2
  <2>7. Arrivals'
    <3>1. has' = has /\ \A q \in has' : ring'[q] # <<>>
      BY <1>3, <1>10
    <3>2. QED
      BY <2>1, <2>2, <2>4, <2>6, <3>1 DEF IInv, Arrivals
  <2>8. PicturesAhead'
    BY <1>3, <2>1, <2>2 DEF IInv, PicturesAhead
  <2>9. QED
    BY <1>3, <1>5, <2>7, <2>8, NothingWritten DEF IInv, Observed
<1>13. QED
  BY <1>11, <1>12 DEF Pins
-----------------------------------------------------------------------------
(* The worker takes a packet                                               *)

\* A packet is written: onto the anchored timeline a as the record r.
Writes(p, k, a, r) ==
  /\ r \in Records /\ r.time \in Nat /\ r.duration \in Nat /\ r.duration > 0
  /\ r.generation = k.generation /\ r.shift = a.offset
  /\ p = "video" => r.time = k.time - a.offset /\ r.duration = k.duration
  /\ p = "audio" => r.time >= a.end["audio"] /\ r.time >= a.cut - a.offset
  /\ timeline' = Extended(a, p, EndOf(r))
  /\ last' = [last EXCEPT ![p] = r.time] /\ out' = [out EXCEPT ![p] = Append(@, r)]

Anchors(p, k, a) ==
  /\ a \in Timelines /\ a.cut >= 0 /\ a.end = timeline.end /\ a.generation = k.generation
  /\ SameEpoch(k, a) \/ FirstAnchor(k, a) \/ NewEpoch(p, k, a)

\* The first packet on its way.
First(p, k) ==
  /\ p \in has /\ p \in Pins /\ k \in Packets /\ Coming(p) \in Seq(Packets) /\ Coming(p) # <<>>
  /\ k = Coming(p)[1] /\ ring[p] # <<>> /\ k = Head(ring[p])

\* A picture of an epoch is not before what is written of the pictures.
LEMMA PictureAhead ==
  ASSUME IInv, NEW k, First("video", k), NEW a, Anchors("video", k, a)
  PROVE  /\ timeline.end["video"] >= 0
         /\ k.time - a.offset >= timeline.end["video"] \/ timeline.end["video"] = 0
         /\ NewEpoch("video", k, a) => k.time - a.offset >= timeline.end["video"]
                                       /\ k.time >= a.offset
<1>1. /\ timeline \in Timelines /\ a \in Timelines /\ k.time \in Nat
  BY DEF IInv, TypeOK, Anchors, First, Packets
<1>2. /\ timeline.end["video"] \in Nat /\ timeline.end["audio"] \in Nat
      /\ timeline.offset \in Int /\ timeline.cut \in Int
  BY <1>1 DEF Timelines, Pins
<1>3. CASE SameEpoch(k, a)
  <2>1. a = timeline /\ 1 \in DOMAIN Coming("video") /\ Coming("video")[1] = k
    BY <1>3 DEF SameEpoch, First
  <2>2. timeline.end["video"] > 0 => k.time >= timeline.end["video"] + timeline.offset
    BY <2>1 DEF IInv, PicturesAhead
  <2>3. ~NewEpoch("video", k, a)
    BY <1>3, <1>1 DEF SameEpoch, NewEpoch, Timelines
  <2>4. QED
    BY <1>1, <1>2, <2>1, <2>2, <2>3
<1>4. CASE FirstAnchor(k, a)
  <2>1. timeline.end["video"] = 0
    BY <1>4 DEF FirstAnchor, IInv, Anchored
  <2>2. ~NewEpoch("video", k, a)
    BY <1>4, <1>1 DEF FirstAnchor, NewEpoch, Timelines
  <2>3. QED
    BY <2>1, <2>2
<1>5. CASE NewEpoch("video", k, a)
  <2>1. PICK e \in Int : /\ e = Larger(timeline.end["video"], timeline.end["audio"])
                         /\ e >= timeline.end["video"]
    <3>1. PICK v \in Int, u \in Int : v = timeline.end["video"] /\ u = timeline.end["audio"]
      BY <1>2
    <3>2. Larger(v, u) \in Int /\ Larger(v, u) >= v
      BY LargerIs
    <3>3. QED
      BY <3>1, <3>2
  <2>2. a.offset = k.time - e
    BY <1>1, <1>5, <2>1 DEF NewEpoch, Timelines
  <2>3. QED
    BY <1>1, <1>2, <2>1, <2>2
<1>6. QED
  BY <1>3, <1>4, <1>5 DEF Anchors

\* What the worker does with the packet it takes.
LEMMA TakeIs ==
  ASSUME IInv, Take
  PROVE  \E p \in Pins, k \in Packets :
           /\ First(p, k) /\ has' = {} /\ ring' = [ring EXCEPT ![p] = Tail(@)]
           /\ UNCHANGED <<pauseGeneration, stop, source, delivered, tagged>>
           /\ ~failed' /\ k.duration \in Nat
           /\ \/ UNCHANGED <<timeline, last, out>>
              \/ \E a \in Timelines :
                   /\ Anchors(p, k, a) /\ ~NewEpoch(p, k, a)
                   /\ timeline' = a /\ UNCHANGED <<last, out>>
              \/ \E a \in Timelines, r \in Records : Anchors(p, k, a) /\ Writes(p, k, a, r)
<1>1. /\ ring \in [Pins -> Seq(Packets)] /\ tagged \in [Pins -> Seq(Packets)]
      /\ timeline \in Timelines /\ has \in SUBSET Pins /\ last \in [Pins -> Int]
  BY DEF IInv, TypeOK
<1>2. PICK p \in Pins : p = IF TakeVideo THEN "video" ELSE "audio"
  BY DEF Pins
<1>3. p \in has
  <2>1. TakeVideo => "video" \in has
    BY DEF TakeVideo
  <2>2. ~TakeVideo => "audio" \in has
    BY <1>1 DEF TakeVideo, Take, Pins
  <2>3. QED
    BY <1>2, <2>1, <2>2
<1>4. ring[p] # <<>> /\ ring[p] \in Seq(Packets) /\ tagged[p] \in Seq(Packets)
  BY <1>1, <1>3 DEF IInv, Arrivals
<1>5. PICK k \in Packets : k = Head(ring[p])
  BY <1>4
<1>6. First(p, k)
  <2>1. Coming(p) = ring[p] \o tagged[p] /\ Coming(p) \in Seq(Packets)
    BY <1>4 DEF Coming
  <2>2. Coming(p) # <<>> /\ Coming(p)[1] = ring[p][1]
    <3>1. \A r, t \in Seq(Packets) : r # <<>> => r \o t # <<>> /\ (r \o t)[1] = r[1]
      OBVIOUS
    <3>2. QED
      BY <1>4, <2>1, <3>1
  <2>3. QED
    BY <1>3, <1>4, <1>5, <2>1, <2>2 DEF First
<1>7. PICK m : m = Map(timeline, p, k)
  OBVIOUS
<1>8. PICK bad \in BOOLEAN :
        /\ bad <=> m.keep /\ (m.time <= last[p] \/ (m.skip > 0 /\ m.skip >= k.frames))
        /\ ring' = [ring EXCEPT ![p] = Tail(@)] /\ timeline' = m.timeline /\ failed' = bad
        /\ IF m.keep /\ ~bad
           THEN /\ last' = [last EXCEPT ![p] = m.time]
                /\ out' = [out EXCEPT ![p] = Append(@,
                     [time |-> m.time, duration |-> m.duration,
                      generation |-> k.generation, shift |-> k.time + Ticks(m.skip) - m.time])]
           ELSE UNCHANGED <<last, out>>
        /\ has' = {} /\ UNCHANGED <<pauseGeneration, stop, source, delivered, tagged>>
  BY <1>2, <1>5, <1>7, Zenon DEF Take
<1>9. k.time \in Nat /\ k.duration \in Nat /\ k.frames \in Nat /\ k.generation \in Nat
  BY DEF Packets
<1>10. CASE ~m.keep /\ m.timeline = timeline
  BY <1>6, <1>8, <1>9, <1>10
<1>11. ASSUME NEW a \in Timelines, Anchors(p, k, a), k.duration > 0,
              Keeps(p, k, a, m) \/ Drops(p, k, a, m)
       PROVE  \/ ~m.keep /\ timeline' = a /\ ~NewEpoch(p, k, a)
              \/ /\ m.keep /\ ~bad
                 /\ \E r \in Records : Writes(p, k, a, r)
  <2>1. a.offset \in Int /\ a.cut \in Int /\ a.end \in [Pins -> Nat] /\ a.end = timeline.end
    BY <1>11 DEF Anchors, Timelines
  <2>2. CASE Drops(p, k, a, m)
    <3>1. ~m.keep /\ m.timeline = a /\ (p = "video" => k.time < a.offset)
      BY <2>2 DEF Drops
    <3>2. ~NewEpoch(p, k, a)
      <4>1. CASE p = "video"
        BY <1>6, <1>9, <1>11, <2>1, <3>1, <4>1, PictureAhead
      <4>2. CASE p # "video"
        BY <4>2 DEF NewEpoch
      <4>3. QED
        BY <4>1, <4>2
    <3>3. QED
      BY <1>8, <3>1, <3>2
  <2>3. CASE Keeps(p, k, a, m)
    <3>1. /\ m.keep /\ m.skip \in Nat /\ m.time \in Nat /\ m.duration \in Nat /\ m.duration > 0
          /\ m.time = k.time + Ticks(m.skip) - a.offset /\ m.duration = k.duration - Ticks(m.skip)
          /\ p = "video" => m.skip = 0
          /\ p = "audio" => m.time >= a.end["audio"] /\ m.time >= a.cut - a.offset
          /\ m.timeline = Extended(a, p, m.time + m.duration)
      BY <2>3 DEF Keeps
    <3>2. PICK d \in Nat : d = Ticks(m.skip)
      BY <3>1, TicksAre
    <3>3. p = "video" => m.time = k.time - a.offset /\ m.duration = k.duration
      <4>1. p = "video" => d = 0
        BY <3>1, <3>2, TicksZero
      <4>2. QED
        BY <1>9, <2>1, <3>1, <3>2, <4>1
    <3>4. m.time >= timeline.end[p]
      <4>1. CASE p = "audio"
        BY <2>1, <3>1, <4>1
      <4>2. CASE p = "video"
        BY <1>6, <1>11, <3>1, <3>3, <4>2, PictureAhead
      <4>3. QED
        BY <4>1, <4>2 DEF Pins
    <3>5. m.time > last[p]
      <4>1. last[p] < timeline.end[p] /\ last[p] \in Int /\ timeline.end[p] \in Nat
        BY <1>1, <2>1 DEF IInv, Anchored
      <4>2. QED
        BY <3>1, <3>4, <4>1
    <3>6. m.skip > 0 => m.skip < k.frames
      <4>1. CASE p = "video"
        BY <3>1, <4>1
      <4>2. CASE p = "audio"
        <5>1. k.duration = Ticks(k.frames)
          <6>1. 1 \in DOMAIN Coming("audio") /\ Coming("audio")[1] = k
            <7>1. First("audio", k)
              BY <1>6, <4>2
            <7>2. PICK s \in Seq(Packets) : s = Coming("audio") /\ s # <<>> /\ k = s[1]
              BY <7>1 DEF First
            <7>3. 1 \in DOMAIN s
              BY <7>2
            <7>4. QED
              BY <7>2, <7>3
          <6>2. QED
            BY <6>1 DEF IInv, Arrivals
        <5>2. m.skip >= k.frames => Ticks(m.skip) >= Ticks(k.frames)
          BY <1>9, <3>1, TicksMonotone
        <5>3. d < k.duration
          BY <1>9, <3>1, <3>2
        <5>4. QED
          BY <1>9, <3>1, <3>2, <5>1, <5>2, <5>3
      <4>3. QED
        BY <4>1, <4>2 DEF Pins
    <3>7. ~bad
      <4>1. ~(m.time <= last[p]) /\ ~(m.skip > 0 /\ m.skip >= k.frames)
        <5>1. last[p] \in Int
          BY <1>1
        <5>2. QED
          BY <1>9, <3>1, <3>5, <3>6, <5>1
      <4>2. QED
        BY <1>8, <4>1
    <3> DEFINE r == [time |-> m.time, duration |-> m.duration, generation |-> k.generation,
                     shift |-> k.time + Ticks(m.skip) - m.time]
    <3>8. r \in Records /\ r.time = m.time /\ r.duration = m.duration /\ r.generation = k.generation
          /\ r.shift = a.offset
      <4>1. k.time + Ticks(m.skip) - m.time = a.offset
        BY <1>9, <2>1, <3>1, <3>2
      <4>2. QED
        BY <1>9, <2>1, <3>1, <4>1 DEF Records
    <3>9. last' = [last EXCEPT ![p] = m.time] /\ out' = [out EXCEPT ![p] = Append(@, r)]
      BY <1>8, <3>1, <3>7
    <3>10. timeline' = m.timeline
      BY <1>8
    <3> HIDE DEF r
    <3>11. Writes(p, k, a, r)
      BY <3>1, <3>3, <3>8, <3>9, <3>10 DEF Writes, EndOf
    <3>12. QED
      BY <3>1, <3>7, <3>8, <3>11
  <2>4. QED
    BY <1>11, <2>2, <2>3
<1>12. ASSUME NEW a \in Timelines, Anchors(p, k, a), k.duration > 0,
              Keeps(p, k, a, m) \/ Drops(p, k, a, m)
       PROVE  /\ ~failed'
              /\ \/ timeline' = a /\ UNCHANGED <<last, out>> /\ ~NewEpoch(p, k, a)
                 \/ \E r \in Records : Writes(p, k, a, r)
  BY <1>8, <1>11, <1>12
<1>13. CASE \E a \in Timelines : /\ Anchors(p, k, a) /\ k.duration > 0
                                 /\ Keeps(p, k, a, m) \/ Drops(p, k, a, m)
  BY <1>6, <1>8, <1>9, <1>12, <1>13
<1>14. QED
  BY <1>1, <1>7, <1>10, <1>13, MapIs DEF Anchors
LEMMA TailOf ==
  ASSUME NEW s \in Seq(Packets), s # <<>>
  PROVE  /\ Tail(s) \in Seq(Packets) /\ 1 \in DOMAIN s
         /\ \A i \in DOMAIN Tail(s) : i + 1 \in DOMAIN s /\ Tail(s)[i] = s[i + 1]
         /\ \A i \in DOMAIN Tail(s) : i \in Nat /\ 1 < i + 1
  OBVIOUS

\* The packet leaves its ring; the others stay in order.
LEMMA TakenInOrder ==
  ASSUME IInv, NEW p \in Pins, NEW k \in Packets, First(p, k),
         ring' = [ring EXCEPT ![p] = Tail(@)], has' = {}, UNCHANGED <<source, tagged>>
  PROVE  /\ ring' \in [Pins -> Seq(Packets)]
         /\ Arrivals'
         /\ \A i \in DOMAIN Coming("video")' :
              \E j \in DOMAIN Coming("video") : Coming("video")'[i] = Coming("video")[j]
         /\ p = "video" => /\ source["video"] >= EndOf(k)
                           /\ \A i \in DOMAIN Coming("video")' : Coming("video")'[i].time >= EndOf(k)
<1>1. ring \in [Pins -> Seq(Packets)] /\ tagged \in [Pins -> Seq(Packets)]
  BY DEF IInv, TypeOK
<1>2. ring[p] \in Seq(Packets) /\ ring[p] # <<>> /\ tagged[p] \in Seq(Packets)
  BY <1>1 DEF First
<1>3. ring' \in [Pins -> Seq(Packets)] /\ ring'[p] = Tail(ring[p])
      /\ \A q \in Pins \ {p} : ring'[q] = ring[q]
  BY <1>1, <1>2
<1>4. Coming(p)' = Tail(Coming(p))
  <2>1. \A r, t \in Seq(Packets) : r # <<>> => Tail(r) \o t = Tail(r \o t)
    OBVIOUS
  <2>2. QED
    BY <1>2, <1>3, <2>1 DEF Coming
<1>5. \A q \in Pins \ {p} : Coming(q)' = Coming(q)
  BY <1>3 DEF Coming
<1>6. PICK v \in Seq(Packets), a \in Seq(Packets) : v = Coming("video") /\ a = Coming("audio")
  <2>1. \A q \in Pins : Coming(q) \in Seq(Packets)
    BY <1>1 DEF Coming
  <2>2. QED
    BY <2>1 DEF Pins
<1>7. PICK v2, a2 : v2 = Coming("video")' /\ a2 = Coming("audio")'
  OBVIOUS
<1>8. /\ \A i \in DOMAIN a : a[i].duration = Ticks(a[i].frames)
      /\ \A i \in DOMAIN v : v[i].duration > 0 /\ EndOf(v[i]) <= source["video"]
      /\ \A i, j \in DOMAIN v : i < j => EndOf(v[i]) <= v[j].time
  BY <1>6 DEF IInv, Arrivals
<1>9. source["video"] \in Nat /\ EndOf(k) \in Nat
  <2>1. source \in [Pins -> Nat] /\ "video" \in Pins
    BY DEF IInv, TypeOK, Pins
  <2>2. k.time \in Nat /\ k.duration \in Nat
    BY DEF Packets
  <2>3. QED
    BY <2>1, <2>2 DEF EndOf
<1>10. CASE p = "video"
  <2>1. v # <<>> /\ k = v[1] /\ v2 = Tail(v) /\ a2 = a
    BY <1>4, <1>5, <1>6, <1>7, <1>10 DEF First, Pins
  <2>2. /\ 1 \in DOMAIN v
        /\ \A i \in DOMAIN v2 : i + 1 \in DOMAIN v /\ v2[i] = v[i + 1]
        /\ \A i \in DOMAIN v2 : i \in Nat /\ 1 < i + 1
    BY <2>1, TailOf
  <2>3. \A i \in DOMAIN v2 : v2[i].duration > 0 /\ EndOf(v2[i]) <= source["video"]
    BY <1>8, <2>2
  <2>4. \A i, j \in DOMAIN v2 : i < j => EndOf(v2[i]) <= v2[j].time
    <3>1. ASSUME NEW i \in DOMAIN v2, NEW j \in DOMAIN v2, i < j
          PROVE  EndOf(v2[i]) <= v2[j].time
      <4>1. i + 1 \in DOMAIN v /\ j + 1 \in DOMAIN v /\ i + 1 < j + 1
        BY <2>2, <3>1
      <4>2. EndOf(v[i + 1]) <= v[j + 1].time
        BY <1>8, <4>1
      <4>3. QED
        BY <2>2, <4>2
    <3>2. QED
      BY <3>1
  <2>5. Arrivals'
    BY <1>6, <1>7, <1>8, <2>1, <2>3, <2>4 DEF Arrivals
  <2>6. EndOf(k) <= source["video"] /\ \A i \in DOMAIN v2 : v2[i].time >= EndOf(k)
    <3>1. EndOf(k) <= source["video"]
      BY <1>8, <2>1, <2>2
    <3>2. ASSUME NEW i \in DOMAIN v2 PROVE v2[i].time >= EndOf(k)
      <4>1. EndOf(k) <= v[i + 1].time
        BY <1>8, <2>1, <2>2
      <4>2. v[i + 1] \in Packets
        BY <2>2
      <4>3. v[i + 1].time \in Nat /\ EndOf(k) \in Nat
        <5>1. \A x \in Packets : x.time \in Nat /\ x.duration \in Nat
          BY DEF Packets
        <5>2. QED
          BY <4>2, <5>1 DEF EndOf
      <4>4. QED
        BY <2>2, <4>1, <4>3
    <3>3. source["video"] \in Nat /\ EndOf(k) \in Nat
      BY <1>9
    <3>4. QED
      BY <3>1, <3>2, <3>3
  <2>7. source["video"] \in Nat /\ EndOf(k) \in Nat
    BY <1>9
  <2>8. source["video"] >= EndOf(k)
    BY <2>6, <2>7
  <2>9. \A i \in DOMAIN v2 : \E j \in DOMAIN v : v2[i] = v[j]
    BY <2>2
  <2>10. QED
    BY <1>3, <1>6, <1>7, <2>5, <2>6, <2>8, <2>9
<1>11. CASE p = "audio"
  <2>1. a # <<>> /\ a2 = Tail(a) /\ v2 = v
    BY <1>4, <1>5, <1>6, <1>7, <1>11 DEF First, Pins
  <2>2. \A i \in DOMAIN a2 : i + 1 \in DOMAIN a /\ a2[i] = a[i + 1]
    BY <2>1, TailOf
  <2>3. \A i \in DOMAIN a2 : a2[i].duration = Ticks(a2[i].frames)
    BY <1>8, <2>2
  <2>4. Arrivals'
    BY <1>6, <1>7, <1>8, <2>1, <2>3 DEF Arrivals
  <2>5. QED
    BY <1>3, <1>6, <1>7, <1>11, <2>1, <2>4
<1>12. QED
  BY <1>10, <1>11 DEF Pins

\* What is written grows by the record, whose pin it extends.
LEMMA WrittenIs ==
  ASSUME IInv, NEW p \in Pins, NEW k \in Packets, NEW a \in Timelines, NEW r \in Records,
         Writes(p, k, a, r)
  PROVE  /\ out' \in [Pins -> Seq(Records)] /\ last' \in [Pins -> Int]
         /\ (Written(p))' = Written(p) \cup {r}
         /\ \A q \in Pins \ {p} : (Written(q))' = Written(q) /\ out'[q] = out[q]
         /\ out'[p] = Append(out[p], r)
         /\ \A q \in Pins : Written(q) \subseteq Records /\ Written(q) \subseteq (Written(q))'
<1>1. out \in [Pins -> Seq(Records)] /\ last \in [Pins -> Int]
  BY DEF IInv, TypeOK
<1>2. out' = [out EXCEPT ![p] = Append(@, r)] /\ last' = [last EXCEPT ![p] = r.time] /\ r.time \in Nat
  BY DEF Writes
<1>3. out'[p] = Append(out[p], r) /\ \A q \in Pins \ {p} : out'[q] = out[q]
  BY <1>1, <1>2
<1>4. out[p] \in Seq(Records)
  BY <1>1
<1>5. out' \in [Pins -> Seq(Records)] /\ last' \in [Pins -> Int]
  BY <1>1, <1>2, <1>4
<1>6. (Written(p))' = Written(p) \cup {r}
  <2>1. PICK s \in Seq(Records) : s = out[p]
    BY <1>4
  <2>2. {Append(s, r)[i] : i \in DOMAIN Append(s, r)} = {s[i] : i \in DOMAIN s} \cup {r}
    <3>1. DOMAIN Append(s, r) = 1 .. Len(s) + 1 /\ DOMAIN s = 1 .. Len(s) /\ Len(s) \in Nat
      OBVIOUS
    <3>2. Append(s, r)[Len(s) + 1] = r /\ \A i \in DOMAIN s : Append(s, r)[i] = s[i]
      OBVIOUS
    <3>3. \A i : i \in DOMAIN Append(s, r) <=> i \in DOMAIN s \/ i = Len(s) + 1
      BY <3>1
    <3>4. QED
      BY <3>2, <3>3
  <2>3. QED
    BY <1>3, <2>1, <2>2 DEF Written
<1>7. \A q \in Pins \ {p} : (Written(q))' = Written(q)
  BY <1>3 DEF Written
<1>8. \A q \in Pins : Written(q) \subseteq Records
  BY <1>1 DEF Written
<1>9. QED
  BY <1>3, <1>5, <1>6, <1>7, <1>8
\* The three ways a packet finds its epoch.
LEMMA EpochIs ==
  ASSUME IInv, NEW p \in Pins, NEW k \in Packets, NEW a \in Timelines, Anchors(p, k, a)
  PROVE  \/ a = timeline /\ k.generation = timeline.generation /\ timeline.cut >= 0
         \/ /\ k.generation = 0 /\ timeline.generation = 0 /\ timeline.cut < 0
            /\ timeline.end["video"] = 0 /\ \A q \in Pins : Written(q) = {}
         \/ /\ p = "video" /\ k.generation > timeline.generation
            /\ a.cut = k.time
            /\ a.cut - a.offset >= timeline.end["video"]
            /\ a.cut - a.offset >= timeline.end["audio"]
<1>1. timeline \in Timelines /\ k.time \in Nat
  BY DEF IInv, TypeOK, Packets
<1>2. CASE SameEpoch(k, a)
  BY <1>2 DEF SameEpoch
<1>3. CASE FirstAnchor(k, a)
  <2>1. k.generation = timeline.generation /\ timeline.cut < 0
    BY <1>3 DEF FirstAnchor
  <2>2. timeline.generation = 0 /\ timeline.end["video"] = 0 /\ \A q \in Pins : Written(q) = {}
    BY <2>1 DEF IInv, Anchored
  <2>3. QED
    BY <2>1, <2>2
<1>4. CASE NewEpoch(p, k, a)
  <2>1. PICK v \in Int, u \in Int : v = timeline.end["video"] /\ u = timeline.end["audio"]
    BY <1>1 DEF Timelines, Pins
  <2>2. PICK e \in Int : e = Larger(v, u) /\ e >= v /\ e >= u
    BY LargerIs
  <2>3. a.cut = k.time /\ a.offset = k.time - e
    BY <1>1, <1>4, <2>1, <2>2 DEF NewEpoch, Timelines
  <2>4. p = "video" /\ k.generation > timeline.generation
    BY <1>4 DEF NewEpoch
  <2>5. a.cut - a.offset = e
    BY <1>1, <2>3
  <2>6. QED
    BY <2>1, <2>2, <2>3, <2>4, <2>5
<1>5. QED
  BY <1>2, <1>3, <1>4 DEF Anchors

\* What a written packet makes of the timeline.
LEMMA TimelineIs ==
  ASSUME IInv, NEW p \in Pins, NEW k \in Packets, NEW a \in Timelines, NEW r \in Records,
         Anchors(p, k, a), Writes(p, k, a, r)
  PROVE  /\ timeline' \in Timelines /\ timeline'.generation = k.generation
         /\ timeline'.offset = a.offset /\ timeline'.cut = a.cut
         /\ timeline'.end[p] >= EndOf(r) /\ timeline'.end[p] \in {EndOf(r), timeline.end[p]}
         /\ \A q \in Pins : /\ timeline'.end[q] >= timeline.end[q]
                            /\ q # p => timeline'.end[q] = timeline.end[q]
         /\ EndOf(r) \in Nat /\ EndOf(r) > r.time /\ r.time \in Nat
<1>1. EndOf(r) \in Nat /\ EndOf(r) > r.time /\ r.time \in Nat
  BY DEF Writes, EndOf
<1>2. timeline' = Extended(a, p, EndOf(r)) /\ a.end = timeline.end /\ a.generation = k.generation
  BY DEF Writes, Anchors
<1>3. /\ timeline' \in Timelines /\ timeline'.generation = k.generation
      /\ timeline'.offset = a.offset /\ timeline'.cut = a.cut
      /\ timeline'.end[p] >= EndOf(r) /\ timeline'.end[p] >= timeline.end[p]
      /\ timeline'.end[p] \in {EndOf(r), timeline.end[p]}
      /\ \A q \in Pins \ {p} : timeline'.end[q] = timeline.end[q]
  BY <1>1, <1>2, ExtendedIs
<1>4. \A q \in Pins : timeline.end[q] \in Nat
  BY DEF IInv, TypeOK, Timelines
<1>5. QED
  BY <1>1, <1>3, <1>4

\* It lies behind what the stream has written, and behind the base of its epoch.
LEMMA RecordAhead ==
  ASSUME IInv, NEW p \in Pins, NEW k \in Packets, NEW a \in Timelines, NEW r \in Records,
         First(p, k), Anchors(p, k, a), Writes(p, k, a, r)
  PROVE  /\ r.time >= timeline.end[p]
         /\ p = "audio" => r.time >= a.cut - a.offset
         /\ k.generation > 0 => r.time >= a.cut - a.offset
         /\ k.generation > timeline.generation => r.time = a.cut - a.offset
<1>1. /\ timeline \in Timelines /\ k.time \in Nat /\ k.generation \in Nat /\ r.time \in Nat
      /\ a.cut \in Int /\ a.offset \in Int /\ a.end = timeline.end
      /\ \A q \in Pins : timeline.end[q] \in Nat
  BY DEF IInv, TypeOK, Packets, Writes, Timelines, Anchors
<1>2. CASE p = "audio"
  <2>1. r.time >= timeline.end["audio"] /\ r.time >= a.cut - a.offset
    BY <1>1, <1>2 DEF Writes
  <2>2. ~(k.generation > timeline.generation)
    BY <1>1, <1>2, EpochIs DEF Timelines
  <2>3. QED
    BY <1>1, <1>2, <2>1, <2>2
<1>3. CASE p = "video"
  <2>1. r.time = k.time - a.offset
    BY <1>3 DEF Writes
  <2>2. k.time - a.offset >= timeline.end["video"] \/ timeline.end["video"] = 0
    BY <1>3, PictureAhead
  <2>3. r.time >= timeline.end[p]
    BY <1>1, <1>3, <2>1, <2>2
  <2>4. CASE a = timeline /\ k.generation = timeline.generation /\ timeline.cut >= 0
    <3>1. k.generation > 0 => Base <= timeline.end["video"]
      BY <2>4 DEF IInv, Anchored
    <3>2. Base = a.cut - a.offset /\ Base \in Int
      BY <1>1, <2>4 DEF Base
    <3>3. QED
      BY <1>1, <1>3, <2>3, <2>4, <3>1, <3>2
  <2>5. CASE k.generation = 0 /\ timeline.generation = 0
    BY <1>1, <1>3, <2>3, <2>5
  <2>6. CASE a.cut = k.time
    BY <1>1, <1>3, <2>1, <2>3, <2>6
  <2>7. QED
    BY <2>4, <2>5, <2>6, EpochIs
<1>4. QED
  BY <1>2, <1>3 DEF Pins

LEMMA WritesPictures ==
  ASSUME IInv, NEW p \in Pins, NEW k \in Packets, NEW a \in Timelines, NEW r \in Records,
         First(p, k), Anchors(p, k, a), Writes(p, k, a, r),
         ring' = [ring EXCEPT ![p] = Tail(@)], has' = {}, UNCHANGED <<source, tagged>>
  PROVE  PicturesAhead'
<1>1. /\ timeline \in Timelines /\ timeline' \in Timelines
      /\ timeline'.offset = a.offset /\ a.offset \in Int
  BY TimelineIs DEF IInv, TypeOK, Timelines
<1>2. /\ timeline.end["video"] \in Nat /\ timeline'.end["video"] \in Nat /\ timeline.offset \in Int
      /\ k.time \in Nat /\ k.duration \in Nat
  BY <1>1 DEF Timelines, Pins, Packets
<1>3. \A i \in DOMAIN Coming("video")' :
        \E j \in DOMAIN Coming("video") : Coming("video")'[i] = Coming("video")[j]
  BY TakenInOrder
<1>4. CASE p = "audio"
  <2>1. timeline'.end["video"] = timeline.end["video"]
    BY <1>4, TimelineIs DEF Pins
  <2>2. timeline.end["video"] > 0 => a = timeline
    BY <1>2, <1>4, EpochIs
  <2>3. PICK next \in Int : next = timeline.end["video"] + timeline.offset
    BY <1>2
  <2>4. timeline.end["video"] > 0 =>
          source["video"] >= next /\ \A j \in DOMAIN Coming("video") : Coming("video")[j].time >= next
    BY <2>3 DEF IInv, PicturesAhead
  <2>5. timeline'.end["video"] > 0 => timeline'.end["video"] + timeline'.offset = next
    BY <1>1, <2>1, <2>2, <2>3
  <2>6. timeline'.end["video"] > 0 =>
          source'["video"] >= next /\ \A i \in DOMAIN Coming("video")' : Coming("video")'[i].time >= next
    BY <1>3, <2>1, <2>4
  <2>7. QED
    BY <2>5, <2>6 DEF PicturesAhead
<1>5. CASE p = "video"
  <2>1. PICK e \in Nat : e = EndOf(k) /\ e = k.time + k.duration
    BY <1>2 DEF EndOf
  <2>2. source["video"] >= e /\ \A i \in DOMAIN Coming("video")' : Coming("video")'[i].time >= e
    BY <1>5, <2>1, TakenInOrder
  <2>3. EndOf(r) = e - a.offset
    BY <1>1, <1>2, <1>5, <2>1 DEF Writes, EndOf
  <2>4. timeline'.end["video"] \in {EndOf(r), timeline.end["video"]} /\ timeline'.end["video"] >= EndOf(r)
        /\ EndOf(r) \in Nat /\ EndOf(r) > 0
    BY <1>5, TimelineIs
  <2>5. r.time >= timeline.end["video"] /\ EndOf(r) > r.time /\ r.time \in Nat
    BY <1>5, RecordAhead, TimelineIs
  <2>6. timeline'.end["video"] = EndOf(r)
    BY <1>2, <2>4, <2>5
  <2>7. timeline'.end["video"] + timeline'.offset = e
    BY <1>1, <2>1, <2>3, <2>6
  <2>8. QED
    BY <2>2, <2>7 DEF PicturesAhead
<1>6. QED
  BY <1>4, <1>5 DEF Pins
LEMMA WritesAnchored ==
  ASSUME IInv, NEW p \in Pins, NEW k \in Packets, NEW a \in Timelines, NEW r \in Records,
         First(p, k), Anchors(p, k, a), Writes(p, k, a, r)
  PROVE  Anchored'
<1>1. /\ timeline \in Timelines /\ timeline' \in Timelines /\ timeline'.generation = k.generation
      /\ timeline'.offset = a.offset /\ timeline'.cut = a.cut /\ a.cut >= 0
      /\ k.generation \in Nat /\ timeline.generation \in Nat
      /\ a.offset \in Int /\ a.cut \in Int /\ timeline.cut \in Int /\ timeline.offset \in Int
  BY TimelineIs DEF IInv, TypeOK, Timelines, Anchors, Packets
<1>2. /\ \A q \in Pins : /\ timeline.end[q] \in Nat /\ timeline'.end[q] \in Nat
                         /\ timeline'.end[q] >= timeline.end[q]
                         /\ last[q] \in Int /\ last[q] < timeline.end[q]
      /\ timeline'.end[p] >= EndOf(r) /\ EndOf(r) \in Nat /\ EndOf(r) > r.time /\ r.time \in Nat
  BY <1>1, TimelineIs DEF Timelines, IInv, TypeOK, Anchored
<1>3. PICK b \in Int : b = a.cut - a.offset
  BY <1>1
<1>4. Base' = b
  BY <1>1, <1>3 DEF Base
<1>5. /\ (Written(p))' = Written(p) \cup {r}
      /\ \A q \in Pins \ {p} : (Written(q))' = Written(q)
      /\ \A q \in Pins : Written(q) \subseteq Records /\ Written(q) \subseteq (Written(q))'
  BY WrittenIs
<1>6. \A q \in Pins : last'[q] < timeline'.end[q]
  <2>1. \A q \in Pins : last'[q] = IF q = p THEN r.time ELSE last[q]
    BY DEF Writes, IInv, TypeOK
  <2>2. QED
    BY <1>2, <2>1
<1>7. ~(timeline'.cut < 0)
  BY <1>1
<1>8. k.generation >= timeline.generation
  BY <1>1, EpochIs
<1>9. \A x \in Records : EndOf(x) \in Int /\ x.generation \in Nat
  BY DEF Records, EndOf
<1>10. ASSUME NEW q \in Pins, NEW x \in Written(q)
       PROVE  /\ EndOf(x) <= timeline'.end[q] /\ x.generation <= timeline'.generation
              /\ IF x.generation = timeline'.generation THEN x.shift = timeline'.offset
                 ELSE EndOf(x) <= b
  <2>1. x \in Records
    BY <1>5
  <2>2. EndOf(x) \in Int /\ x.generation \in Nat
    BY <1>9, <2>1
  <2>3. /\ EndOf(x) <= timeline.end[q] /\ x.generation <= timeline.generation
        /\ IF x.generation = timeline.generation THEN x.shift = timeline.offset
           ELSE EndOf(x) <= Base
    BY DEF IInv, Anchored
  <2>4. EndOf(x) <= timeline'.end[q] /\ x.generation <= timeline'.generation
    BY <1>1, <1>2, <1>8, <2>2, <2>3
  <2>5. CASE a = timeline /\ k.generation = timeline.generation
    <3>1. Base = b
      BY <1>3, <2>5 DEF Base
    <3>2. QED
      BY <1>1, <2>3, <2>4, <2>5, <3>1
  <2>6. CASE \A q_1 \in Pins : Written(q_1) = {}
    BY <2>6
  <2>7. CASE /\ k.generation > timeline.generation
             /\ b >= timeline.end["video"] /\ b >= timeline.end["audio"]
    <3>1. x.generation # timeline'.generation
      BY <1>1, <2>2, <2>3, <2>7
    <3>2. b >= timeline.end[q]
      BY <2>7 DEF Pins
    <3>3. EndOf(x) <= b
      BY <1>2, <2>2, <2>3, <3>2
    <3>4. QED
      BY <2>4, <3>1, <3>3
  <2>8. QED
    BY <1>3, <2>5, <2>6, <2>7, EpochIs
<1>11. /\ EndOf(r) <= timeline'.end[p] /\ r.generation = timeline'.generation
       /\ r.generation <= timeline'.generation /\ r.shift = timeline'.offset
  <2>1. r.generation = k.generation /\ r.shift = a.offset
    BY DEF Writes
  <2>2. QED
    BY <1>1, <1>2, <2>1
<1>12. \A q \in Pins : \A x \in (Written(q))' :
         /\ EndOf(x) <= timeline'.end[q] /\ x.generation <= timeline'.generation
         /\ IF x.generation = timeline'.generation THEN x.shift = timeline'.offset
            ELSE EndOf(x) <= b
  <2>1. ASSUME NEW q \in Pins, NEW x \in (Written(q))'
        PROVE  x \in Written(q) \/ (q = p /\ x = r)
    BY <1>5
  <2>2. QED
    BY <1>10, <1>11, <2>1
<1>13. ASSUME timeline'.generation > 0
       PROVE  /\ b <= timeline'.end["video"] /\ timeline'.end["video"] > 0
              /\ \E l \in (Written("video"))' : l.generation = timeline'.generation /\ l.time = b
  <2>1. "video" \in Pins
    BY DEF Pins
  <2>2. CASE a = timeline /\ k.generation = timeline.generation
    <3>1. Base = b
      BY <1>3, <2>2 DEF Base
    <3>2. /\ b <= timeline.end["video"] /\ timeline.end["video"] > 0
          /\ \E l \in Written("video") : l.generation = timeline.generation /\ l.time = b
      BY <1>1, <1>13, <2>2, <3>1 DEF IInv, Anchored
    <3>3. b <= timeline'.end["video"] /\ timeline'.end["video"] > 0
      BY <1>2, <2>1, <3>2
    <3>4. QED
      BY <1>1, <1>5, <2>1, <2>2, <3>2, <3>3
  <2>3. CASE k.generation = 0
    BY <1>1, <1>13, <2>3
  <2>4. CASE p = "video" /\ k.generation > timeline.generation
    <3>1. r.time = b
      BY <1>3, <2>4, RecordAhead
    <3>2. b <= timeline'.end["video"] /\ timeline'.end["video"] > 0
      BY <1>2, <2>4, <3>1
    <3>3. r \in (Written("video"))'
      BY <1>5, <2>4
    <3>4. QED
      BY <1>11, <3>1, <3>2, <3>3
  <2>5. QED
    BY <2>2, <2>3, <2>4, EpochIs
<1>14. QED
  BY <1>4, <1>6, <1>7, <1>12, <1>13 DEF Anchored

LEMMA WritesInOrder ==
  ASSUME IInv, NEW p \in Pins, NEW k \in Packets, NEW a \in Timelines, NEW r \in Records,
         First(p, k), Anchors(p, k, a), Writes(p, k, a, r)
  PROVE  EpochsDoNotOverlap' /\ EpochsInStep' /\ AudioDisjoint'
<1>1. /\ timeline \in Timelines /\ timeline' \in Timelines /\ timeline'.generation = k.generation
      /\ timeline'.offset = a.offset /\ timeline'.cut = a.cut
      /\ k.generation \in Nat /\ timeline.generation \in Nat
      /\ a.offset \in Int /\ a.cut \in Int
  BY TimelineIs DEF IInv, TypeOK, Timelines, Packets
<1>2. r.generation = k.generation /\ r.shift = a.offset /\ r.time \in Nat /\ EndOf(r) \in Nat
  BY TimelineIs DEF Writes
<1>3. PICK b \in Int : b = a.cut - a.offset
  BY <1>1
<1>4. /\ r.time >= timeline.end[p] /\ (p = "audio" => r.time >= b)
      /\ k.generation > 0 => r.time >= b
  BY <1>3, RecordAhead
<1>5. /\ \A q \in Pins : \A x \in (Written(q))' : x \in Written(q) \/ (q = p /\ x = r)
      /\ \A q \in Pins : Written(q) \subseteq Records /\ Written(q) \subseteq (Written(q))'
  BY WrittenIs
<1>6. \A x \in Records : EndOf(x) \in Int /\ x.generation \in Nat
  BY DEF Records, EndOf
<1>7. /\ \A q \in Pins : \A x \in (Written(q))' :
           /\ x.generation <= k.generation
           /\ IF x.generation = k.generation THEN x.shift = a.offset ELSE EndOf(x) <= b
      /\ k.generation > 0 =>
           \E l \in (Written("video"))' : l.generation = k.generation /\ l.time = b
  BY <1>1, <1>3, WritesAnchored DEF Anchored, Base
<1>8. EpochsDoNotOverlap'
  <2>1. ASSUME NEW q \in Pins, NEW s \in Pins, NEW x \in (Written(q))', NEW y \in (Written(s))',
               x.generation < y.generation
        PROVE  EndOf(x) <= y.time
    <3>1. CASE x \in Written(q) /\ y \in Written(s)
      BY <2>1, <3>1 DEF IInv, EpochsDoNotOverlap
    <3>2. CASE x \in Written(q) /\ y = r
      <4>1. x.generation \in Nat /\ EndOf(x) \in Int
        BY <1>5, <1>6, <3>2
      <4>2. k.generation > 0 /\ x.generation # k.generation
        BY <1>1, <1>2, <2>1, <3>2, <4>1
      <4>3. EndOf(x) <= b
        BY <1>7, <4>2
      <4>4. r.time >= b
        BY <1>4, <4>2
      <4>5. QED
        BY <1>2, <3>2, <4>1, <4>3, <4>4
    <3>3. CASE x = r
      <4>1. y.generation <= k.generation /\ y.generation \in Nat
        BY <1>2, <1>5, <1>6, <1>7, <1>1
      <4>2. QED
        BY <1>1, <1>2, <2>1, <3>3, <4>1
    <3>4. QED
      BY <1>5, <3>1, <3>2, <3>3
  <2>2. QED
    BY <2>1 DEF EpochsDoNotOverlap
<1>9. EpochsInStep'
  <2>1. ASSUME NEW q \in Pins, NEW s \in Pins, NEW x \in (Written(q))', NEW y \in (Written(s))',
               x.generation = y.generation
        PROVE  x.shift = y.shift
    <3>1. CASE x \in Written(q) /\ y \in Written(s)
      BY <2>1, <3>1 DEF IInv, EpochsInStep
    <3>2. CASE x = r \/ y = r
      <4>1. x.generation = k.generation /\ y.generation = k.generation
        BY <1>2, <2>1, <3>2
      <4>2. QED
        BY <1>7, <4>1
    <3>3. QED
      BY <1>5, <3>1, <3>2
  <2>2. ASSUME NEW x \in (Written("audio"))', x.generation > 0
        PROVE  \E l \in (Written("video"))' : l.generation = x.generation /\ l.time <= x.time
    <3>1. "video" \in Pins /\ "audio" \in Pins
      BY DEF Pins
    <3>2. CASE x \in Written("audio")
      <4>1. PICK l \in Written("video") : l.generation = x.generation /\ l.time <= x.time
        BY <2>2, <3>2 DEF IInv, EpochsInStep
      <4>2. QED
        BY <1>5, <3>1, <4>1
    <3>3. CASE p = "audio" /\ x = r
      <4>1. PICK l \in (Written("video"))' : l.generation = k.generation /\ l.time = b
        BY <1>2, <1>7, <2>2, <3>3
      <4>2. l.time <= x.time
        BY <1>2, <1>4, <3>3, <4>1
      <4>3. QED
        BY <1>2, <3>3, <4>1, <4>2
    <3>4. QED
      BY <1>5, <3>1, <3>2, <3>3
  <2>3. QED
    BY <2>1, <2>2 DEF EpochsInStep
<1>10. AudioDisjoint'
  <2>1. "audio" \in Pins
    BY DEF Pins
  <2>2. CASE p = "video"
    BY <2>1, <2>2, WrittenIs DEF IInv, AudioDisjoint
  <2>3. CASE p = "audio"
    <3>1. PICK s \in Seq(Records) : s = out["audio"]
      BY <2>1 DEF IInv, TypeOK
    <3>2. out'["audio"] = Append(s, r)
      BY <2>3, <3>1, WrittenIs
    <3>3. \A i, j \in DOMAIN s : i < j => EndOf(s[i]) <= s[j].time
      BY <3>1 DEF IInv, AudioDisjoint
    <3>4. \A i \in DOMAIN s : EndOf(s[i]) <= r.time
      <4>1. ASSUME NEW i \in DOMAIN s PROVE EndOf(s[i]) <= r.time
        <5>1. s[i] \in Written("audio") /\ s[i] \in Records
          BY <3>1 DEF Written
        <5>2. EndOf(s[i]) <= timeline.end["audio"] /\ EndOf(s[i]) \in Int
          BY <1>6, <2>1, <5>1 DEF IInv, Anchored
        <5>3. timeline.end["audio"] \in Nat
          BY <1>1, <2>1 DEF Timelines
        <5>4. QED
          BY <1>2, <1>4, <2>3, <5>2, <5>3
      <4>2. QED
        BY <4>1
    <3>5. DOMAIN Append(s, r) = 1 .. Len(s) + 1 /\ DOMAIN s = 1 .. Len(s) /\ Len(s) \in Nat
      OBVIOUS
    <3>6. Append(s, r)[Len(s) + 1] = r /\ \A i \in DOMAIN s : Append(s, r)[i] = s[i]
      OBVIOUS
    <3>7. ASSUME NEW i \in DOMAIN Append(s, r), NEW j \in DOMAIN Append(s, r), i < j
          PROVE  EndOf(Append(s, r)[i]) <= Append(s, r)[j].time
      <4>1. i \in DOMAIN s /\ (j \in DOMAIN s \/ j = Len(s) + 1)
        BY <3>5, <3>7
      <4>2. QED
        BY <3>3, <3>4, <3>6, <3>7, <4>1
    <3>8. QED
      BY <3>2, <3>7 DEF AudioDisjoint
  <2>4. QED
    BY <2>2, <2>3 DEF Pins
<1>11. QED
  BY <1>8, <1>9, <1>10
\* The anchor of a packet that is then cut away: the first of the recording, or none.
LEMMA DropsKeep ==
  ASSUME IInv, NEW p \in Pins, NEW k \in Packets, NEW a \in Timelines,
         First(p, k), Anchors(p, k, a), ~NewEpoch(p, k, a), timeline' = a, ~failed',
         ring' = [ring EXCEPT ![p] = Tail(@)], has' = {},
         UNCHANGED <<source, tagged, last, out>>
  PROVE  PicturesAhead' /\ Observed'
<1>1. timeline \in Timelines /\ k.generation \in Nat
  BY DEF IInv, TypeOK, Packets
<1>2. CASE a = timeline
  <2>1. UNCHANGED <<timeline, last, out>> /\ (failed' => failed)
    BY <1>2
  <2>2. \A i \in DOMAIN Coming("video")' :
          \E j \in DOMAIN Coming("video") : Coming("video")'[i] = Coming("video")[j]
    BY TakenInOrder
  <2>3. PicturesAhead'
    BY <2>1, <2>2 DEF IInv, PicturesAhead
  <2>4. QED
    BY <2>1, <2>3, NothingWritten
<1>3. CASE /\ FirstAnchor(k, a) /\ timeline.end["video"] = 0 /\ timeline.generation = 0
           /\ \A q \in Pins : Written(q) = {}
  <2>1. /\ timeline'.end = timeline.end /\ timeline'.generation = 0 /\ timeline'.cut >= 0
        /\ timeline' \in Timelines
    BY <1>3 DEF Anchors, FirstAnchor
  <2>2. ~(timeline'.cut < 0)
    BY <2>1 DEF Timelines
  <2>3. \A q \in Pins : (Written(q))' = {}
    BY <1>3 DEF Written
  <2>4. PicturesAhead'
    BY <1>3, <2>1 DEF PicturesAhead
  <2>5. Anchored'
    <3>1. \A q \in Pins : last'[q] < timeline'.end[q]
      BY <2>1 DEF IInv, Anchored
    <3>2. QED
      BY <2>1, <2>2, <2>3, <3>1 DEF Anchored
  <2>6. EpochsDoNotOverlap' /\ EpochsInStep'
    BY <2>3 DEF EpochsDoNotOverlap, EpochsInStep, Pins
  <2>7. AudioDisjoint' /\ NeverFails'
    BY DEF IInv, AudioDisjoint, NeverFails
  <2>8. QED
    BY <2>4, <2>5, <2>6, <2>7 DEF Observed
<1>4. SameEpoch(k, a) => a = timeline
  BY DEF SameEpoch
<1>5. FirstAnchor(k, a) => /\ timeline.end["video"] = 0 /\ timeline.generation = 0
                           /\ \A q \in Pins : Written(q) = {}
  BY DEF FirstAnchor, IInv, Anchored
<1>6. QED
  BY <1>2, <1>3, <1>4, <1>5 DEF Anchors

LEMMA TakeKeepsIInv ==
  ASSUME IInv, Take
  PROVE  IInv'
<1>1. PICK p \in Pins, k \in Packets :
        /\ First(p, k) /\ has' = {} /\ ring' = [ring EXCEPT ![p] = Tail(@)]
        /\ UNCHANGED <<pauseGeneration, stop, source, delivered, tagged>>
        /\ ~failed' /\ k.duration \in Nat
        /\ \/ UNCHANGED <<timeline, last, out>>
           \/ \E a \in Timelines :
                /\ Anchors(p, k, a) /\ ~NewEpoch(p, k, a)
                /\ timeline' = a /\ UNCHANGED <<last, out>>
           \/ \E a \in Timelines, r \in Records : Anchors(p, k, a) /\ Writes(p, k, a, r)
  BY TakeIs
<1>2. /\ ring' \in [Pins -> Seq(Packets)] /\ Arrivals'
      /\ \A i \in DOMAIN Coming("video")' :
           \E j \in DOMAIN Coming("video") : Coming("video")'[i] = Coming("video")[j]
  BY <1>1, TakenInOrder
<1>3. /\ pauseGeneration' \in Nat /\ stop' \in BOOLEAN /\ has' \in SUBSET Pins
      /\ source' \in [Pins -> Nat] /\ delivered' \in [Pins -> Nat] /\ tagged' \in [Pins -> Seq(Packets)]
  BY <1>1, Zenon DEF IInv, TypeOK
<1>4. CASE UNCHANGED <<timeline, last, out>>
  <2>1. TypeOK'
    BY <1>2, <1>3, <1>4 DEF IInv, TypeOK
  <2>2. failed' => failed
    BY <1>1
  <2>3. PicturesAhead'
    BY <1>1, <1>2, <1>4 DEF IInv, PicturesAhead
  <2>4. QED
    BY <1>2, <1>4, <2>1, <2>2, <2>3, NothingWritten DEF IInv, Observed
<1>5. ASSUME NEW a \in Timelines, Anchors(p, k, a), ~NewEpoch(p, k, a), timeline' = a,
             UNCHANGED <<last, out>>
      PROVE  IInv'
  <2>1. TypeOK'
    BY <1>2, <1>3, <1>5 DEF IInv, TypeOK
  <2>2. PicturesAhead' /\ Observed'
    BY <1>1, <1>5, DropsKeep
  <2>3. QED
    BY <1>2, <2>1, <2>2 DEF IInv, Observed
<1>6. ASSUME NEW a \in Timelines, NEW r \in Records, Anchors(p, k, a), Writes(p, k, a, r)
      PROVE  IInv'
  <2>1. TypeOK'
    <3>1. timeline' \in Timelines /\ out' \in [Pins -> Seq(Records)] /\ last' \in [Pins -> Int]
      BY <1>6, TimelineIs, WrittenIs
    <3>2. QED
      BY <1>2, <1>3, <3>1 DEF TypeOK
  <2>2. PicturesAhead'
    BY <1>1, <1>6, WritesPictures
  <2>3. Anchored'
    BY <1>1, <1>6, WritesAnchored
  <2>4. EpochsDoNotOverlap' /\ EpochsInStep' /\ AudioDisjoint'
    BY <1>1, <1>6, WritesInOrder
  <2>5. NeverFails'
    BY <1>1 DEF NeverFails
  <2>6. QED
    BY <1>2, <2>1, <2>2, <2>3, <2>4, <2>5 DEF IInv
<1>7. QED
  BY <1>1, <1>4, <1>5, <1>6

-----------------------------------------------------------------------------
(* The theorems                                                            *)

LEMMA NextKeepsIInv == IInv /\ [Next]_vars => IInv'
<1> SUFFICES ASSUME IInv, [Next]_vars PROVE IInv'
  OBVIOUS
<1>1. CASE TagVideo
  <2>1. PICK step \in VideoSteps : Tag("video", step, 0)
    BY <1>1 DEF TagVideo
  <2>2. "video" \in Pins /\ step \in Nat /\ step > 0 /\ 0 \in Nat
    BY StreamAssumption DEF Pins
  <2>3. QED
    BY <2>1, <2>2, TagKeepsIInv
<1>2. CASE TagAudio
  <2>1. PICK gap \in AudioGaps, frames \in AudioPackets : Tag("audio", gap, frames)
    BY <1>2 DEF TagAudio
  <2>2. "audio" \in Pins /\ gap \in Nat /\ frames \in Nat
    BY StreamAssumption DEF Pins
  <2>3. QED
    BY <2>1, <2>2, TagKeepsIInv
<1>3. CASE \E p \in Pins : Publish(p)
  BY <1>3, PublishKeepsIInv
<1>4. CASE Look \/ Hold \/ SetPaused \/ Stop
  BY <1>4, QuietKeepsIInv
<1>5. CASE Take
  BY <1>5, TakeKeepsIInv
<1>6. CASE UNCHANGED vars
  <2>1. UNCHANGED <<timeline, last, failed, out>> /\ UNCHANGED <<source, timeline>>
        /\ UNCHANGED <<has, ring, tagged>>
    BY <1>6 DEF vars
  <2>2. TypeOK'
    BY <1>6 DEF vars, IInv, TypeOK
  <2>3. \A p \in Pins : Coming(p)' = Coming(p)
    BY <2>1 DEF Coming
  <2>4. \A p \in has' : ring'[p] # <<>>
    BY <2>1 DEF IInv, Arrivals
  <2>5. QED
    BY <2>1, <2>2, <2>3, <2>4, NothingWritten, NothingDelivered DEF IInv, Observed
<1>7. QED
  BY <1>1, <1>2, <1>3, <1>4, <1>5, <1>6 DEF Next

\* The pause timeline's inductive invariant: packets wait in the order of their
\* times, and what is written lies behind the ends and the base the timeline keeps.
THEOREM PauseInvariance == Spec => []IInv
<1>1. Init => IInv
  BY InitIInv
<1>2. IInv /\ [Next]_vars => IInv'
  BY NextKeepsIInv
<1>3. QED
  BY <1>1, <1>2, PTL DEF Spec

\* Both streams share a cut: everything written of an earlier epoch ends before
\* anything of a later one begins (RecordingPauseTimeline::Map, Recorder::Run).
THEOREM EpochsDoNotOverlapHolds == Spec => []EpochsDoNotOverlap
<1>1. IInv => EpochsDoNotOverlap
  BY DEF IInv
<1>2. QED
  BY <1>1, PauseInvariance, PTL

\* Sound and picture of an epoch are moved by the same amount, and PCM of a resumed
\* epoch is written only behind its first picture.
THEOREM EpochsInStepHolds == Spec => []EpochsInStep
<1>1. IInv => EpochsInStep
  BY DEF IInv
<1>2. QED
  BY <1>1, PauseInvariance, PTL

\* No PCM is written twice or over itself, whatever is trimmed and however it rounds.
THEOREM AudioDisjointHolds == Spec => []AudioDisjoint
<1>1. IInv => AudioDisjoint
  BY DEF IInv
<1>2. QED
  BY <1>1, PauseInvariance, PTL

\* No pause fails a recording whose source times increase: Recorder::Run never leaves
\* with MF_E_INVALID_TIMESTAMP or MF_E_INVALID_STREAM_DATA.
THEOREM PauseNeverFails == Spec => []NeverFails
<1>1. IInv => NeverFails
  BY DEF IInv
<1>2. QED
  BY <1>1, PauseInvariance, PTL

=============================================================================
