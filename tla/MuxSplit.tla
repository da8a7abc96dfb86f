------------------------------ MODULE MuxSplit ------------------------------
(***************************************************************************)
(* The archive sink of fragmented recordings (FragmentedMp4Sink.cpp): the  *)
(* packets the encoders deliver are held until their order and duration    *)
(* are known, then written into a file, and the file is replaced by the    *)
(* next part at a clean video boundary.  Process and Finalize run under    *)
(* one mutex; their loops are taken a write at a time, because each of     *)
(* them may fail.                                                          *)
(*                                                                         *)
(* A packet is its two timestamps, its stream and the kind of key picture  *)
(* it is; its bytes, the media types and libavformat's own buffering are   *)
(* left out.                                                               *)
(***************************************************************************)
EXTENDS Integers, Sequences, Functions

CONSTANTS
  Modes,       \* split policies, among "none", "time" and "bytes"
  SplitAfter,  \* SplitPolicy::duration100ns
  MaxQueued,   \* kMaxPendingPackets
  Steps,       \* decode time from one picture to the next
  Reorder,     \* how much later than decoded a picture may be shown
  Gaps,        \* time from one audio packet to the next
  MaxPackets   \* bound: packets of each stream

ASSUME ConstantsAssumption ==
  /\ Modes \subseteq {"none", "time", "bytes"}
  /\ SplitAfter \in Nat \ {0} /\ MaxQueued \in Nat \ {0}
  /\ Steps \subseteq Nat \ {0} /\ Reorder \subseteq Nat /\ Gaps \subseteq Nat \ {0}
  /\ \A s \in {"video", "audio"} : MaxPackets[s] \in Nat

Streams == {"video", "audio"}

VARIABLES
  mode,            \* which limit of SplitPolicy is set
  sent,            \* ghost: what each encoder delivered and Process took
  \* State, by the names of its members
  header, failure, storageError, shutdown, finalizing, finalized,
  pending, pendingVideo, queue, part, segmentOrigin, segmentHasVideo, trailerWritten,
  \* the call that holds the mutex: what it is doing, for whom, the rest of the
  \* packets it was given, DrainSegments' locals, Finalize's hr and its result
  pc, caller, ready, roll, boundary, hr, result,
  parts,           \* the files: their origin on the timeline and their contents
  refused          \* ghost: packets the muxer itself refused

input    == <<mode, sent>>
held     == <<pending, pendingVideo, queue>>
segment  == <<part, segmentOrigin, segmentHasVideo, header, trailerWritten>>
call     == <<pc, caller, ready, roll, boundary, hr>>
ends     == <<failure, storageError, shutdown, finalizing, finalized, result>>
vars     == <<input, held, segment, call, ends, parts, refused>>

Last(q) == q[Len(q)]

Init ==
  /\ mode \in Modes /\ sent = [s \in Streams |-> <<>>]
  /\ header = FALSE /\ failure = "ok" /\ storageError = FALSE
  /\ shutdown = FALSE /\ finalizing = FALSE /\ finalized = FALSE
  /\ pending = <<>> /\ pendingVideo = <<>> /\ queue = [s \in Streams |-> <<>>]
  /\ part = 1 /\ segmentOrigin = 0 /\ segmentHasVideo = FALSE /\ trailerWritten = FALSE
  /\ pc = "idle" /\ caller = "Process" /\ ready = <<>>
  /\ roll = FALSE /\ boundary = 0 /\ hr = "ok" /\ result = "none"
  /\ parts = <<[origin |-> 0, content |-> <<>>]>> /\ refused = {}

-----------------------------------------------------------------------------
(* The encoders *)

Packet(s, dts, pts, key) == [stream |-> s, dts |-> dts, pts |-> pts, key |-> key]

\* A picture is shown no earlier than it is decoded and at a time of its own; a
\* recording starts with the IDR picture shown first; whatever comes before a key
\* picture is shown before it, while pictures that follow it may be shown first.
Picture(p) ==
  LET old == sent["video"] IN
  /\ IF old = <<>> THEN p.key = "IDR" ELSE Head(old).pts < p.pts
  /\ \A i \in DOMAIN old : old[i].pts # p.pts /\ (p.key # "no" => old[i].pts < p.pts)
  /\ \A i, j \in DOMAIN old : i < j /\ old[j].key # "no" => old[i].pts < p.pts

\* Both streams start at 0, with a prefix where the source does not
\* (RecordingTimeline).
NextPackets(s) ==
  LET first == sent[s] = <<>>
      dts   == IF first THEN 0 ELSE Last(sent[s]).dts
  IN IF s = "audio"
       THEN {Packet(s, dts + gap, dts + gap, "no") : gap \in IF first THEN {0} ELSE Gaps}
       ELSE {p \in {Packet(s, dts + step, dts + step + later, key) :
                      step \in IF first THEN {0} ELSE Steps,
                      later \in IF first THEN {0} ELSE Reorder,
                      key \in {"IDR", "CRA", "no"}} : Picture(p)}

-----------------------------------------------------------------------------
(* Writing, and returning to the caller *)

\* Process keeps an error in failure and drops the rest of what it was given.
\* Finalize keeps it in hr and goes on to its next stage.
Return(e, rest) ==
  /\ roll' = FALSE /\ boundary' = 0
  /\ CASE caller = "Process" ->
            /\ failure' = IF e = "ok" THEN failure ELSE e
            /\ ready' = IF e = "ok" THEN rest ELSE <<>>
            /\ pc' = "Write" /\ UNCHANGED hr
       [] caller = "Held" ->
            /\ hr' = IF e = "ok" THEN hr ELSE e
            /\ pc' = "Resume" /\ UNCHANGED <<failure, ready>>
       [] caller = "Finish" ->
            /\ hr' = IF e = "ok" THEN hr ELSE e
            /\ pc' = "Seal" /\ UNCHANGED <<failure, ready>>

Goto(label) == pc' = label /\ UNCHANGED <<ready, roll, boundary, hr, failure>>

\* One write or flush of the current file; a failure of the storage stays.
Outcomes == IF storageError THEN {"storage"} ELSE {"ok", "storage"}

Appended(x) == [parts EXCEPT ![part].content = Append(@, x)]

\* One packet into the current file.  A file that has its trailer takes no more;
\* a packet libavformat will not take is lost alone.  libavformat defines nothing
\* for a muxer whose header is not written: there the program may only crash.
MuxRaw(packet, next, rest) ==
  \/ /\ ~header /\ Goto("crashed") /\ UNCHANGED <<storageError, parts, refused>>
  \/ \E e \in IF trailerWritten THEN {"invalid"} ELSE Outcomes \cup {"refused"} :
       /\ header
       /\ parts' = IF e = "ok" THEN Appended(packet) ELSE parts
       /\ storageError' = (storageError \/ e = "storage")
       /\ refused' = IF e = "refused" THEN refused \cup {packet} ELSE refused
       /\ IF e = "ok" /\ next # "return" THEN Goto(next) ELSE Return(e, rest)

\* Unsplit recordings are written at once; otherwise the packet is queued and
\* the segments are drained as far as their order is known.
MuxPacket(packet, rest) ==
  \/ mode = "none" /\ MuxRaw(packet, "return", rest) /\ UNCHANGED queue
  \/ /\ mode # "none"
     /\ IF Len(queue["video"]) + Len(queue["audio"]) >= MaxQueued
          THEN Return("full", rest) /\ UNCHANGED queue
          ELSE /\ queue' = [queue EXCEPT ![packet.stream] = Append(@, packet)]
               /\ pc' = "Drain" /\ ready' = rest /\ UNCHANGED <<roll, boundary, hr, failure>>
     /\ UNCHANGED <<storageError, parts, refused>>

-----------------------------------------------------------------------------
(* Process *)

Accepting == pc = "idle" /\ ~shutdown /\ ~finalizing /\ ~finalized /\ failure = "ok"

\* A sample is taken; until both streams have been seen it only waits for the
\* header.  Every sample that waited is handled with the one that completes it.
Process(s) ==
  /\ Accepting /\ Len(sent[s]) < MaxPackets[s]
  /\ header \/ Len(pending) < MaxQueued
  /\ \E p \in NextPackets(s) :
       /\ sent' = [sent EXCEPT ![s] = Append(@, p)]
       /\ \/ /\ header /\ ready' = <<p>> /\ pc' = "Write"
             /\ UNCHANGED <<pending, header, failure>>
          \/ /\ ~header /\ \E t \in Streams : sent'[t] = <<>>
             /\ pending' = Append(pending, p) /\ UNCHANGED <<pc, ready, header, failure>>
          \/ /\ ~header /\ \A t \in Streams : sent'[t] # <<>>
             /\ \/ /\ header' = TRUE /\ pending' = <<>>
                   /\ ready' = Append(pending, p) /\ pc' = "Write" /\ UNCHANGED failure
                \/ /\ failure' = "header" /\ pending' = Append(pending, p)
                   /\ UNCHANGED <<pc, ready, header>>
  /\ UNCHANGED <<mode, pendingVideo, queue, part, segmentOrigin, segmentHasVideo,
                 trailerWritten, caller, roll, boundary, hr, storageError, shutdown,
                 finalizing, finalized, result, parts, refused>>

\* A sample that is invalid, cannot be read or copied, or finds too many waiting
\* for the header, and a set-up of the muxer that fails.
ProcessFails ==
  /\ Accepting /\ failure' = "input"
  /\ UNCHANGED <<input, held, segment, call, storageError, shutdown, finalizing,
                 finalized, result, parts, refused>>

\* A picture is kept until the next one tells its duration.
WritePacket ==
  /\ pc = "Write" /\ ready # <<>>
  /\ LET packet == Head(ready) IN
     \/ /\ packet.stream = "audio"
        /\ MuxPacket(packet, Tail(ready)) /\ UNCHANGED pendingVideo
     \/ /\ packet.stream = "video" /\ pendingVideo # <<>>
        /\ MuxPacket(Head(pendingVideo), ready) /\ pendingVideo' = <<>>
     \/ /\ packet.stream = "video" /\ pendingVideo = <<>>
        /\ pendingVideo' = <<packet>> /\ ready' = Tail(ready)
        /\ UNCHANGED <<pc, roll, boundary, hr, failure, queue, storageError, parts, refused>>
  /\ UNCHANGED <<input, pending, segment, caller, shutdown, finalizing, finalized, result>>

ProcessReturns ==
  /\ pc = "Write" /\ ready = <<>> /\ pc' = "idle"
  /\ UNCHANGED <<input, held, segment, caller, ready, roll, boundary, hr, ends, parts, refused>>

-----------------------------------------------------------------------------
(* DrainSegments *)

finish == caller = "Finish"
video  == Head(queue["video"])

\* An HEVC key picture that is shown later than decoded must be an IDR picture.
SafeKey(p) == p.key = "IDR" \/ (p.key = "CRA" /\ p.pts = p.dts)

\* Wrong variant: a failed split is tried again while the recording is ended.
MayRollAgain == segmentHasVideo /\ SafeKey(video) /\ video.pts > segmentOrigin

MayRoll ==
  /\ failure = "ok" /\ segmentHasVideo /\ SafeKey(video) /\ video.pts > segmentOrigin

\* The time since the part's origin is known exactly, its length is not modelled.
Due == IF ~MayRoll THEN {FALSE}
       ELSE IF mode = "time" THEN {video.pts - segmentOrigin >= SplitAfter} ELSE BOOLEAN

\* A picture decoded after the key picture, within its reorder window, that is
\* shown before it.
HasLeading ==
  LET q == queue["video"]
  IN \E i \in DOMAIN q : q[i].pts < video.pts /\ \A j \in 1 .. i - 1 : q[j].dts < video.pts

\* Wrong variant: any sound at all is taken for the sound up to the boundary.
CoveredAtAll(time) == queue["audio"] # <<>>

Covered(time) == queue["audio"] # <<>> /\ Last(queue["audio"]).pts >= time

DrainFrame ==
  UNCHANGED <<input, pending, pendingVideo, segment, caller, shutdown, finalizing,
              finalized, result>>

Unwritten == UNCHANGED <<queue, storageError, parts, refused>>

\* Decide about the next picture: wait for the rest of its reorder window or for
\* the sound up to the boundary, or go on to write that sound.
Decide ==
  /\ pc = "Drain" /\ queue["video"] # <<>>
  /\ \E due \in Due :
       LET reordered == due /\ video.pts > video.dts
           cut == due /\ ~(reordered /\ HasLeading)
           end == IF cut THEN video.pts ELSE video.dts
       IN IF ~finish /\ (\/ reordered /\ Last(queue["video"]).dts < video.pts
                         \/ ~Covered(end))
            THEN Return("ok", ready)
            ELSE /\ roll' = (cut /\ Covered(end)) /\ boundary' = end
                 /\ pc' = "Audio" /\ UNCHANGED <<ready, hr, failure>>
  /\ DrainFrame /\ Unwritten

\* GetLength of the file fails.
LengthFails ==
  /\ pc = "Drain" /\ queue["video"] # <<>> /\ mode = "bytes" /\ MayRoll
  /\ Return("length", ready)
  /\ DrainFrame /\ Unwritten

Pop(s) == queue' = [queue EXCEPT ![s] = Tail(@)]

SoundBefore == queue["audio"] # <<>> /\ Head(queue["audio"]).pts < boundary

WriteAudio ==
  /\ pc = "Audio" /\ SoundBefore
  /\ MuxRaw(Head(queue["audio"]), "Audio", ready) /\ Pop("audio")
  /\ DrainFrame

AudioWritten ==
  /\ pc = "Audio" /\ ~SoundBefore
  /\ Goto(IF roll THEN "Create" ELSE "Video")
  /\ DrainFrame /\ Unwritten

WriteVideo ==
  /\ pc = "Video"
  /\ MuxRaw(video, "Drain", ready) /\ Pop("video")
  /\ segmentHasVideo' = (segmentHasVideo \/ pc' = "Drain")
  /\ UNCHANGED <<input, pending, pendingVideo, part, segmentOrigin, header, trailerWritten,
                 caller, shutdown, finalizing, finalized, result>>

\* No picture is left: only the last drain also writes the sound that is.
Drained ==
  /\ pc = "Drain" /\ queue["video"] = <<>>
  /\ \/ /\ finish /\ queue["audio"] # <<>>
        /\ MuxRaw(Head(queue["audio"]), "Drain", ready) /\ Pop("audio")
     \/ ~(finish /\ queue["audio"] # <<>>) /\ Return("ok", ready) /\ Unwritten
  /\ DrainFrame

-----------------------------------------------------------------------------
(* RollSegment *)

RollFrame == UNCHANGED <<input, held, caller, shutdown, finalizing, finalized, result, refused>>

\* The next file is made, and its storage, before the current one is touched.
CreateNext ==
  /\ pc = "Create"
  /\ Goto("Trailer") \/ Return("create", ready)
  /\ RollFrame /\ UNCHANGED <<segment, storageError, parts>>

Trailer(e) == [stream |-> "trailer", complete |-> e = "ok"]

SealCurrent ==
  /\ pc = "Trailer" /\ trailerWritten' = TRUE
  /\ \E e \in Outcomes :
       /\ parts' = Appended(Trailer(e)) /\ storageError' = (storageError \/ e = "storage")
       /\ IF e = "ok" THEN Goto("Retire") ELSE Return(e, ready)
  /\ RollFrame /\ UNCHANGED <<part, segmentOrigin, segmentHasVideo, header>>

\* The old file's close is queued with the storage (RetireRecordingStorage).
RetireCurrent ==
  /\ pc = "Retire"
  /\ Goto("Open") \/ Return("retire", ready)
  /\ RollFrame /\ UNCHANGED <<segment, storageError, parts>>

\* Wrong variant: the queued sound is cleared with the old muxer.
OpenNextCleared ==
  /\ pc = "Open"
  /\ part' = part + 1 /\ segmentOrigin' = video.pts /\ segmentHasVideo' = FALSE
  /\ trailerWritten' = FALSE /\ header' = TRUE /\ Goto("Video")
  /\ parts' = Append(parts, [origin |-> video.pts, content |-> <<>>])
  /\ queue' = [queue EXCEPT !["audio"] = <<>>]
  /\ UNCHANGED <<input, pending, pendingVideo, caller, shutdown, finalizing, finalized,
                 result, refused, storageError>>

\* The next file becomes the current one, then the muxer and its header are set
\* up for it.
OpenNext ==
  /\ pc = "Open"
  /\ part' = part + 1 /\ segmentOrigin' = video.pts /\ segmentHasVideo' = FALSE
  /\ trailerWritten' = FALSE
  /\ parts' = Append(parts, [origin |-> video.pts, content |-> <<>>])
  /\ \/ header' = TRUE /\ Goto("Video")
     \/ header' = FALSE /\ Return("open", ready)
  /\ RollFrame /\ UNCHANGED storageError

-----------------------------------------------------------------------------
(* Finalize and Shutdown *)

\* The work item that BeginFinalize queues calls Finalize later, or is refused.
BeginFinalize ==
  /\ pc = "idle" /\ ~shutdown /\ ~finalizing /\ finalizing' = TRUE
  /\ UNCHANGED <<input, held, segment, call, failure, storageError, shutdown, finalized,
                 result, parts, refused>>

End(e) ==
  /\ finalized' = TRUE /\ result' = (IF e = "ok" THEN failure ELSE e) /\ pc' = "idle"
  /\ UNCHANGED <<ready, roll, boundary, hr, failure>>

FinalizeFrame ==
  UNCHANGED <<input, pending, segmentOrigin, segmentHasVideo, part, header, shutdown,
              finalizing, refused>>

\* Without a header nothing can be saved; with one, the picture kept for its
\* duration is handed on first.
Finalize ==
  /\ pc = "idle" /\ finalizing /\ ~finalized /\ ~shutdown
  /\ \/ /\ trailerWritten \/ ~header
        /\ End(IF failure # "ok" THEN failure
               ELSE IF trailerWritten THEN "invalid" ELSE "empty")
        /\ UNCHANGED caller
     \/ /\ ~trailerWritten /\ header /\ caller' = "Held"
        /\ Goto("Held") /\ UNCHANGED <<finalized, result>>
  /\ FinalizeFrame /\ UNCHANGED <<pendingVideo, queue, trailerWritten, storageError, parts>>

WriteHeld ==
  /\ pc = "Held" /\ pendingVideo' = <<>>
  /\ \/ pendingVideo = <<>> /\ Return("ok", ready) /\ Unwritten
     \/ pendingVideo # <<>> /\ MuxPacket(Head(pendingVideo), ready)
  /\ UNCHANGED <<input, pending, segment, caller, shutdown, finalizing, finalized, result>>

\* The last drain, unless a trailer was written meanwhile.
Resume ==
  /\ pc = "Resume" /\ ~trailerWritten
  /\ caller' = "Finish" /\ Goto(IF mode = "none" THEN "Seal" ELSE "Drain")
  /\ FinalizeFrame
  /\ UNCHANGED <<pendingVideo, queue, trailerWritten, storageError, finalized, result, parts>>

SealedBefore ==
  /\ pc \in {"Resume", "Seal"} /\ trailerWritten
  /\ End(IF hr # "ok" THEN hr ELSE "invalid")
  /\ FinalizeFrame /\ UNCHANGED <<pendingVideo, queue, trailerWritten, caller, storageError, parts>>

\* Even after an error the trailer closes every fragment possible.
Seal ==
  /\ pc = "Seal" /\ ~trailerWritten /\ trailerWritten' = TRUE
  /\ \/ /\ ~header /\ Goto("crashed")
        /\ UNCHANGED <<parts, storageError, finalized, result>>
     \/ \E e \in Outcomes :
          /\ header
          /\ parts' = Appended(Trailer(e)) /\ storageError' = (storageError \/ e = "storage")
          /\ End(IF e = "ok" THEN hr ELSE e)
  /\ FinalizeFrame /\ UNCHANGED <<pendingVideo, queue, caller>>

\* Shutdown drops everything that is held, whether or not Finalize has run.
Shutdown ==
  /\ pc = "idle" /\ ~shutdown /\ shutdown' = TRUE
  /\ pending' = <<>> /\ pendingVideo' = <<>> /\ queue' = [s \in Streams |-> <<>>]
  /\ UNCHANGED <<input, segment, call, failure, storageError, finalizing, finalized, result,
                 parts, refused>>

Drain == Decide \/ LengthFails \/ WriteAudio \/ AudioWritten \/ WriteVideo \/ Drained
Roll  == CreateNext \/ SealCurrent \/ RetireCurrent \/ OpenNext

Next ==
  \/ \E s \in Streams : Process(s)
  \/ ProcessFails \/ WritePacket \/ ProcessReturns
  \/ Drain \/ Roll
  \/ BeginFinalize \/ Finalize \/ WriteHeld \/ Resume \/ SealedBefore \/ Seal \/ Shutdown

Spec == Init /\ [][Next]_vars

-----------------------------------------------------------------------------
(* Properties *)

\* The packets of a stream that the files hold.
Saved(s) ==
  {x \in UNION {Range(parts[k].content) : k \in DOMAIN parts} : x.stream = s}

\* The files taken in order hold the packets of a stream in the order they were
\* delivered in, none of them twice (decode times tell packets apart).
InOrder ==
  \A l \in DOMAIN parts : \A k \in 1 .. l :
    \A j \in DOMAIN parts[l].content :
      \A i \in IF k < l THEN DOMAIN parts[k].content ELSE 1 .. j - 1 :
        LET x == parts[k].content[i]
            y == parts[l].content[j]
        IN x.stream \in Streams /\ x.stream = y.stream => x.dts < y.dts

\* "All video and audio packets saved exactly once": at every moment, and after
\* any error, the files together hold each stream from its beginning, in order,
\* without a hole or a repetition, save for packets libavformat itself refused.
SavedInOrder ==
  /\ InOrder
  /\ \A s \in Streams : LET saved == Saved(s) IN
       /\ saved \subseteq Range(sent[s]) \ refused
       /\ \A j \in DOMAIN sent[s] : sent[s][j] \in saved =>
            \A i \in 1 .. j - 1 : sent[s][i] \in saved \cup refused

TakesPartOf(k, t) == parts[k].origin <= t /\ (k < Len(parts) => t < parts[k + 1].origin)

Sealed(k) == \E i \in DOMAIN parts[k].content : parts[k].content[i].stream = "trailer"

NoLongGap == \A gap \in Gaps : gap <= SplitAfter

\* "Only the archive changes, at a clean video boundary": the parts divide the
\* timeline of both streams between them; a part begins with a key picture that
\* nothing in the part is shown before, and holds sound and picture when it is
\* sealed (for splits by time, with no gap in the sound longer than a part, and
\* unless so much sound waited for a picture that the queue was full).
\* Once libavformat has refused a packet, only the division of the timeline is
\* promised.
PartsPlayable ==
  \A k \in DOMAIN parts :
    LET content == parts[k].content
        Of(s)   == {i \in DOMAIN content : content[i].stream = s}
    IN /\ \A s \in Streams : \A i \in Of(s) : TakesPartOf(k, content[i].pts)
       /\ refused = {} =>
            \A i \in Of("video") : (\A j \in Of("video") : i <= j) =>
              /\ content[i].key # "no"
              /\ \A j \in Of("video") : content[i].pts <= content[j].pts
       /\ /\ Sealed(k) /\ refused = {} /\ mode # "bytes" /\ NoLongGap /\ ~storageError
          /\ "full" \notin {failure, hr}
          => \A s \in Streams : Of(s) # {}

\* "A failed header may leave muxer-private initialization partially done.  Never
\* retry that transaction": no packet and no trailer is ever given to a muxer
\* whose header is not written.
HeaderComesFirst == pc # "crashed"

Complete(k) ==
  LET content == parts[k].content
  IN content # <<>> /\ Last(content).stream = "trailer" /\ Last(content).complete

\* A part has one trailer, its last write.  A recording that ends well is wholly
\* in complete parts; and so is one whose next part could not be made, for that
\* "must not destroy the current playable recording": all that is missing is the
\* picture whose sample was answered with the failure.
EndsComplete ==
  /\ \A k \in DOMAIN parts : \A i \in DOMAIN parts[k].content :
       parts[k].content[i].stream = "trailer" => i = Len(parts[k].content)
  /\ result = "ok" \/ (result = "create" /\ failure = "create" /\ refused = {}) =>
       /\ \A k \in DOMAIN parts : Complete(k)
       /\ \A s \in Streams : LET saved == Saved(s) IN
            \A i \in DOMAIN sent[s] :
              \/ sent[s][i] \in saved
              \/ result # "ok" /\ s = "video" /\ i = Len(sent[s])
=============================================================================
