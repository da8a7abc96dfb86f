---------------------------- MODULE RecordingPause ----------------------------
(***************************************************************************)
(* What a recording with pauses contains: the packets of the two rings,    *)
(* the pause generation they are tagged with, and the worker's merge of    *)
(* the rings onto one output timeline (Recorder.cpp and                    *)
(* RecordingPauseTimeline.h).  RecordingSession models the life of the     *)
(* recorder around it; here the recording is under way, no ring overflows  *)
(* and no sample is invalid, so every loss is the pause logic's own.       *)
(*                                                                         *)
(* pauseGeneration_ is even while recording and odd while paused.  A pin   *)
(* loads it and publishes the packet in two steps, so a packet may enter   *)
(* its ring any number of pauses after it was tagged.  The worker looks at *)
(* the rings and takes a packet in two steps, so what it saw may be stale. *)
(* Times are in ticks, TimeBase of them in a second of SampleRate frames   *)
(* (10000000 and 48000 in the code).                                       *)
(***************************************************************************)
EXTENDS Integers, Sequences

CONSTANTS
  TimeBase, SampleRate,
  StartTimes,    \* source times the pins may start at
  VideoSteps,    \* ticks from one video frame to the next, as the source has it
  AudioPackets,  \* frames a PCM packet may hold
  AudioGaps,     \* ticks lost between two PCM packets by the driver's clock
  Slots,         \* packets a ring holds
  MaxGeneration, \* bound: pauses and resumes
  MaxPackets     \* bound: packets each pin is given

Pins == {"video", "audio"}

ASSUME ScaleAssumption ==
  TimeBase \in Nat \ {0} /\ SampleRate \in Nat \ {0}
ASSUME StreamAssumption ==
  /\ StartTimes \subseteq Nat /\ StartTimes # {}
  /\ VideoSteps \subseteq Nat \ {0} /\ AudioGaps \subseteq Nat
  /\ AudioPackets \subseteq Nat \ {0}
ASSUME PauseBoundsAssumption ==
  Slots \in Nat \ {0} /\ MaxGeneration \in Nat /\ MaxPackets \in Nat

VARIABLES
  pauseGeneration,
  stop,
  source,    \* per pin: source time of its next sample
  delivered, \* per pin: samples delivered so far (bound)
  tagged,    \* per pin: the packet its callback is about to publish
  ring,      \* per pin: the packets published and not taken
  has,       \* rings the worker saw non-empty, empty between iterations
  timeline,  \* the worker's RecordingPauseTimeline
  last,      \* per pin: last mapped time handed to the encoder
  failed,    \* the worker left the loop with an error
  out        \* per pin: the packets written, oldest first (observed only)

vars == <<pauseGeneration, stop, source, delivered, tagged, ring, has,
          timeline, last, failed, out>>

Larger(a, b) == IF a >= b THEN a ELSE b

\* n PCM frames in ticks, rounded down.
Ticks(n) == (n * TimeBase) \div SampleRate

-----------------------------------------------------------------------------
(* RecordingPauseTimeline                                                  *)

NeedsVideo(g) == g > timeline.generation

\* Wrong variant: a cut only leaves the pictures written before it in place.
AnchorOnVideo(tl, k) ==
  LET cut == IF k.generation = tl.generation THEN tl ELSE
        [tl EXCEPT !.generation = k.generation, !.cut = k.time,
                   !.offset = k.time - tl.end["video"]]
  IN IF cut.cut >= 0 THEN cut
     ELSE [cut EXCEPT !.offset = k.time, !.cut = k.time]

\* A packet of a new epoch re-anchors the timeline behind everything written;
\* the first packet of all anchors the recording.
Anchor(tl, k) ==
  LET cut == IF k.generation = tl.generation THEN tl ELSE
        [tl EXCEPT !.generation = k.generation, !.cut = k.time,
                   !.offset = k.time - Larger(tl.end["video"], tl.end["audio"])]
  IN IF cut.cut >= 0 THEN cut
     ELSE [cut EXCEPT !.offset = k.time, !.cut = k.time]

\* Wrong variant: rounded down, PCM may start before `first'.
SkipDown(t, first) ==
  IF t >= first THEN 0 ELSE ((first - t) * SampleRate) \div TimeBase

\* Frames to drop so that PCM starting at time t starts at `first' or later,
\* rounded up to whole frames.
Skip(t, first) ==
  IF t >= first THEN 0
  ELSE ((first - t) * SampleRate + TimeBase - 1) \div TimeBase

Dropped(tl) == [keep |-> FALSE, timeline |-> tl, time |-> 0, duration |-> 0, skip |-> 0]

\* Wrong variant: PCM opens an epoch.
AdmissibleAudio(tl, p, k) ==
  /\ k.duration > 0 /\ k.time >= 0 /\ k.generation % 2 = 0
  /\ k.generation >= tl.generation

Admissible(tl, p, k) ==
  /\ k.duration > 0 /\ k.time >= 0 /\ k.generation % 2 = 0
  /\ k.generation >= tl.generation
  /\ k.generation = tl.generation \/ p = "video"

Extended(a, p, end) == [a EXCEPT !.end[p] = Larger(@, end)]

Kept(a, p, time, left, skip) ==
  [keep |-> TRUE, time |-> time, duration |-> left, skip |-> skip,
   timeline |-> Extended(a, p, time + left)]

\* The frames to drop of a packet: none of a picture, of PCM what is before the
\* cut or already written.
Trim(a, p, k) ==
  IF p = "video" THEN 0 ELSE Skip(k.time, Larger(a.cut, a.end["audio"] + a.offset))

\* What is left of a packet, moved to the output.
Move(a, p, time, left, skip) ==
  IF time < a.offset \/ left <= 0 THEN Dropped(a)
  ELSE Kept(a, p, time - a.offset, left, skip)

Map(tl, p, k) ==
  IF ~Admissible(tl, p, k) THEN Dropped(tl) ELSE
  LET a    == Anchor(tl, k)
      skip == Trim(a, p, k)
  IN Move(a, p, k.time + Ticks(skip), k.duration - Ticks(skip), skip)

-----------------------------------------------------------------------------
Init ==
  /\ pauseGeneration = 0 /\ stop = FALSE
  /\ source \in [Pins -> StartTimes] /\ delivered = [p \in Pins |-> 0]
  /\ tagged = [p \in Pins |-> <<>>] /\ ring = [p \in Pins |-> <<>>]
  /\ has = {}
  /\ timeline = [generation |-> 0, offset |-> -1, cut |-> -1,
                 end |-> [p \in Pins |-> 0]]
  /\ last = [p \in Pins |-> -1] /\ failed = FALSE
  /\ out = [p \in Pins |-> <<>>]

\* A callback: the sample is timed, then the pause generation is loaded; an
\* odd one drops the sample but its time has passed.
Tag(p, step, frames) ==
  /\ tagged[p] = <<>> /\ ~stop
  /\ delivered[p] < MaxPackets /\ delivered' = [delivered EXCEPT ![p] = @ + 1]
  /\ LET time     == IF p = "video" THEN source[p] ELSE source[p] + step
         duration == IF p = "video" THEN step ELSE Ticks(frames)
     IN /\ source' = [source EXCEPT ![p] = time + duration]
        /\ tagged' = IF pauseGeneration % 2 = 1 THEN tagged ELSE
             [tagged EXCEPT ![p] = <<[time |-> time, duration |-> duration,
                                frames |-> frames, generation |-> pauseGeneration]>>]
  /\ UNCHANGED <<pauseGeneration, stop, ring, has, timeline, last, failed, out>>

TagVideo == \E step \in VideoSteps : Tag("video", step, 0)
TagAudio == \E gap \in AudioGaps, frames \in AudioPackets : Tag("audio", gap, frames)

Publish(p) ==
  /\ tagged[p] # <<>> /\ Len(ring[p]) < Slots
  /\ ring' = [ring EXCEPT ![p] = @ \o tagged[p]]
  /\ tagged' = [tagged EXCEPT ![p] = <<>>]
  /\ UNCHANGED <<pauseGeneration, stop, source, delivered, has, timeline, last,
                 failed, out>>

\* SetPaused with the other value than the current one; it refuses after stop.
SetPaused ==
  /\ ~stop /\ pauseGeneration < MaxGeneration
  /\ pauseGeneration' = pauseGeneration + 1
  /\ UNCHANGED <<stop, source, delivered, tagged, ring, has, timeline, last,
                 failed, out>>

Stop ==
  /\ ~stop /\ stop' = TRUE
  /\ UNCHANGED <<pauseGeneration, source, delivered, tagged, ring, has,
                 timeline, last, failed, out>>

\* The two write indices are loaded; an empty pair ends the iteration.
Look ==
  /\ has = {} /\ ~failed
  /\ LET seen == {p \in Pins : ring[p] # <<>>}
     IN seen # {} /\ has' = seen
  /\ UNCHANGED <<pauseGeneration, stop, source, delivered, tagged, ring,
                 timeline, last, failed, out>>

ResumeAudio == "audio" \in has /\ NeedsVideo(Head(ring["audio"]).generation)

\* Wrong variant: a stop does not release held PCM.
MustHoldAlways == ResumeAudio /\ "video" \notin has

MustHold == ResumeAudio /\ "video" \notin has /\ ~stop

\* PCM of a resumed epoch waits for its first video frame (10 ms at a time).
Hold ==
  /\ has # {} /\ MustHold
  /\ has' = {}
  /\ UNCHANGED <<pauseGeneration, stop, source, delivered, tagged, ring,
                 timeline, last, failed, out>>

TakeVideo ==
  /\ "video" \in has
  /\ \/ ResumeAudio \/ "audio" \notin has
     \/ Head(ring["video"]).time <= Head(ring["audio"]).time

\* The packet is taken, mapped, and written unless the pause cut it away.
Take ==
  /\ has # {} /\ ~MustHold
  /\ LET p == IF TakeVideo THEN "video" ELSE "audio"
         k == Head(ring[p])
         m == Map(timeline, p, k)
         bad == m.keep /\ (m.time <= last[p] \/ (m.skip > 0 /\ m.skip >= k.frames))
     IN /\ ring' = [ring EXCEPT ![p] = Tail(@)]
        /\ timeline' = m.timeline
        /\ failed' = bad
        /\ IF m.keep /\ ~bad
           THEN /\ last' = [last EXCEPT ![p] = m.time]
                /\ out' = [out EXCEPT ![p] = Append(@,
                     [time |-> m.time, duration |-> m.duration,
                      generation |-> k.generation, shift |-> k.time + Ticks(m.skip) - m.time])]
           ELSE UNCHANGED <<last, out>>
  /\ has' = {}
  /\ UNCHANGED <<pauseGeneration, stop, source, delivered, tagged>>

Next ==
  \/ TagVideo \/ TagAudio \/ \E p \in Pins : Publish(p)
  \/ SetPaused \/ Stop \/ Look \/ Hold \/ Take

Spec == Init /\ [][Next]_vars

\* Callbacks that tagged a packet publish it and the worker keeps running.
FairSpec ==
  /\ Spec
  /\ \A p \in Pins : WF_vars(Publish(p))
  /\ WF_vars(Look \/ Hold \/ Take)
-----------------------------------------------------------------------------
(* Properties.                                                             *)

Written(p) == {out[p][i] : i \in DOMAIN out[p]}
EndOf(k)   == k.time + k.duration

\* "Both streams share a cut": everything written of an earlier epoch, in either
\* stream, ends before anything of a later epoch begins.  A packet tagged before
\* a pause and published after the resume cannot land behind the cut.
EpochsDoNotOverlap ==
  \A p, q \in Pins : \A k \in Written(p), l \in Written(q) :
    k.generation < l.generation => EndOf(k) <= l.time

\* Sound and picture stay in step: within an epoch every packet of both streams
\* is moved by the same amount, and PCM of a resumed epoch is only heard from the
\* epoch's first video frame on.
EpochsInStep ==
  /\ \A p, q \in Pins : \A k \in Written(p), l \in Written(q) :
       k.generation = l.generation => k.shift = l.shift
  /\ \A k \in Written("audio") : k.generation > 0 =>
       \E l \in Written("video") : l.generation = k.generation /\ l.time <= k.time

\* No PCM is written twice or over itself, trimming and rounding included.
AudioDisjoint ==
  \A i, j \in DOMAIN out["audio"] :
    i < j => EndOf(out["audio"][i]) <= out["audio"][j].time

\* Once the recording is stopped, held PCM included, the rings run empty.  A source
\* with increasing times is never failed with MF_E_INVALID_TIMESTAMP or
\* MF_E_INVALID_STREAM_DATA by a pause: however deliveries, pauses and the worker
\* interleave, the mapping turns no stream back and trims no packet it keeps to nothing.
StopEmptiesRings ==
  stop ~> ~failed /\ \A p \in Pins : ring[p] = <<>> /\ tagged[p] = <<>>

-----------------------------------------------------------------------------
(* The inductive invariant behind the three of them.                       *)

Packets   == [time : Nat, duration : Nat, frames : Nat, generation : Nat]
Timelines == [generation : Nat, offset : Int, cut : Int, end : [Pins -> Nat]]
Records   == [time : Int, duration : Int, generation : Nat, shift : Int]

TypeOK ==
  /\ pauseGeneration \in Nat /\ stop \in BOOLEAN /\ has \in SUBSET Pins
  /\ source \in [Pins -> Nat] /\ delivered \in [Pins -> Nat]
  /\ tagged \in [Pins -> Seq(Packets)] /\ ring \in [Pins -> Seq(Packets)]
  /\ timeline \in Timelines /\ last \in [Pins -> Int]
  /\ out \in [Pins -> Seq(Records)]

\* The packets on their way to the worker, the one still to be published last.
Coming(p) == ring[p] \o tagged[p]

\* A picture ends where the next one begins; PCM lasts as long as its frames; and
\* a ring the worker has seen filled stays so until it takes from it.
Arrivals ==
  /\ \A p \in has : ring[p] # <<>>
  /\ \A i \in DOMAIN Coming("audio") :
       Coming("audio")[i].duration = Ticks(Coming("audio")[i].frames)
  /\ \A i \in DOMAIN Coming("video") :
       /\ Coming("video")[i].duration > 0
       /\ EndOf(Coming("video")[i]) <= source["video"]
  /\ \A i, j \in DOMAIN Coming("video") :
       i < j => EndOf(Coming("video")[i]) <= Coming("video")[j].time

\* The pictures to come begin, once mapped, where the last one ended or later.
PicturesAhead ==
  LET next == timeline.end["video"] + timeline.offset IN
  timeline.end["video"] > 0 =>
    /\ source["video"] >= next
    /\ \A i \in DOMAIN Coming("video") : Coming("video")[i].time >= next

\* Where the present epoch begins on the output.
Base == timeline.cut - timeline.offset

\* What is written lies behind the ends the timeline keeps; what is of an earlier
\* epoch, before this one's base, where this one's first picture is.
Anchored ==
  /\ timeline.cut < 0 => timeline.generation = 0 /\ timeline.end["video"] = 0
  /\ timeline.cut < 0 => \A p \in Pins : Written(p) = {}
  /\ \A p \in Pins : last[p] < timeline.end[p]
  /\ \A p \in Pins : \A k \in Written(p) :
       /\ EndOf(k) <= timeline.end[p] /\ k.generation <= timeline.generation
       /\ IF k.generation = timeline.generation THEN k.shift = timeline.offset
          ELSE EndOf(k) <= Base
  /\ timeline.generation > 0 =>
       /\ Base <= timeline.end["video"] /\ timeline.end["video"] > 0
       /\ \E l \in Written("video") : l.generation = timeline.generation /\ l.time = Base

\* No pause fails the recording.
NeverFails == ~failed

IInv ==
  /\ TypeOK /\ Arrivals /\ PicturesAhead /\ Anchored /\ NeverFails
  /\ EpochsDoNotOverlap /\ EpochsInStep /\ AudioDisjoint
=============================================================================
