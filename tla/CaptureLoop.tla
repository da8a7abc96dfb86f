----------------------------- MODULE CaptureLoop -----------------------------
(***************************************************************************)
(* The capture thread (main.cpp UnifiedCaptureRenderLoop and, in mode      *)
(* "AudioOnly", AudioOnlyCaptureLoop) and what it waits for:               *)
(*                                                                         *)
(*   streams  the driver's threads: SampleCB puts a frame into the         *)
(*            one-slot mailbox LatestVideoSample, or rejects its format    *)
(*   graph    DirectShow's event queue, drained by CaptureGraphEvents      *)
(*   DXGI     the swap chain's waitable object and the one credit that     *)
(*            presentation::Readiness makes of it                          *)
(*   UI       power broadcasts (PlaybackPowerEvents), closing              *)
(*                                                                         *)
(* A sample is only present or absent: the mailbox tells no two apart.     *)
(***************************************************************************)
EXTENDS Integers, Sequences

CONSTANTS
  Modes,           \* among "VSync" (paced by the swap chain), "Exclusive",
                   \* "Immediate" and "AudioOnly" (no video at all)
  Streams,         \* the driver's streaming threads
  Scenarios,       \* bound: what may happen in one behaviour, among "video",
                   \* "format", "audio", "graph", "power" and "output"
  Batch,           \* graph events taken by one Wait (64 in the code)
  MaxQueued,       \* bound: graph events queued at a time
  MaxPower         \* bound: power revisions

ASSUME ConstantsAssumption ==
  /\ Modes \subseteq {"VSync", "Exclusive", "Immediate", "AudioOnly"}
  /\ Batch \in Nat \ {0} /\ MaxQueued \in Nat \ {0} /\ MaxPower \in Nat

Codes == {"other", "complete", "error"}

VARIABLES
  mode, scenario, pc, running, closing,
  outcome,          \* why the loop was left; "none" while it runs
  \* the mailbox: a sample is there, the latched failure, the auto-reset event
  latest, formatFailure, frameEvent, streamPc, audioRejected,
  \* locals of the loop
  frameReady, received, taken, timedOut,
  outputChanged,    \* the UI's output generation is ahead of the renderer's
  occluded,
  \* Readiness (handle_, ready_, bypassed_) and the swap chain behind its handle
  readiness, chain,
  \* DirectShow's queue and CaptureGraphEvents
  queue, count, failure, completionPending,
  \* PlaybackPowerEvents (the revision's low bit: suspended), its auto-reset
  \* event, the UI between its two steps; the capture thread's view and the
  \* Windows power request
  power, powerEvent, notifying, observed, request,
  errorQueued       \* observation: an error event was queued while the loop ran

mailbox == <<latest, formatFailure, frameEvent, streamPc>>
loop    == <<frameReady, received, taken, timedOut>>
display == <<outputChanged, occluded, readiness, chain>>
graph   == <<queue, count, failure, completionPending, errorQueued>>
powers  == <<power, powerEvent, notifying, observed, request>>
ui      == <<running, closing>>
vars    == <<mode, scenario, pc, outcome, ui, mailbox, audioRejected, loop, display, graph, powers>>

NoHandle == [handle |-> FALSE, ready |-> FALSE, bypassed |-> FALSE]
Fresh(m) == [NoHandle EXCEPT !.handle = (m = "VSync")]

Init ==
  /\ mode \in Modes /\ scenario \in Scenarios /\ pc = "Setup" /\ outcome = "none"
  /\ running = TRUE /\ closing = FALSE
  /\ latest = FALSE /\ formatFailure = FALSE /\ frameEvent = FALSE
  /\ streamPc = [s \in Streams |-> "idle"] /\ audioRejected = FALSE
  /\ frameReady = FALSE /\ received = FALSE /\ taken = FALSE /\ timedOut = FALSE
  /\ outputChanged = FALSE /\ occluded = FALSE /\ readiness = NoHandle /\ chain = "signaled"
  /\ queue = <<>> /\ count = 0 /\ failure = FALSE /\ completionPending = FALSE
  /\ errorQueued = FALSE
  /\ power = 0 /\ powerEvent = FALSE /\ notifying = FALSE /\ observed = 0 /\ request = "none"

Alive == pc \notin {"Stop", "Stopping", "Ended"}
SettingUp == pc \in {"Setup", "Output", "Connect", "Sound"}
InLoop == Alive /\ ~SettingUp /\ pc # "Run"
Paced  == readiness.handle /\ ~readiness.bypassed
Ready  == ~Paced \/ readiness.ready
Suspended(revision) == revision % 2 = 1

GoTo(there) == pc' = there
Leave(why)  == pc' = "Stop" /\ outcome' = why
StayIn      == UNCHANGED outcome
-----------------------------------------------------------------------------
(* The driver's threads.                                                   *)

\* A callback runs from control->Run until control->Stop has returned.
Streaming == ~SettingUp /\ pc \notin {"Stopping", "Ended"} /\ mode # "AudioOnly"

\* SampleCB reads formatFailure_ outside the lock; the format matches or not.
SampleArrives(s) ==
  /\ Streaming /\ "video" \in scenario /\ streamPc[s] = "idle" /\ ~formatFailure
  /\ \E matches \in (IF "format" \in scenario THEN BOOLEAN ELSE {TRUE}) :
       streamPc' = [streamPc EXCEPT ![s] = IF matches THEN "push" ELSE "reject"]
  /\ UNCHANGED <<latest, formatFailure, frameEvent>>

\* Push's lock: not after a rejection, else replacing an unconsumed sample.
\* Wrong variant: the failure is not tested again under the lock.
PushUnchecked(s) ==
  /\ streamPc[s] = "push"
  /\ latest' = TRUE
  /\ streamPc' = [streamPc EXCEPT ![s] = "signal"]
  /\ UNCHANGED <<formatFailure, frameEvent>>

Push(s) ==
  /\ streamPc[s] = "push"
  /\ latest' = (latest \/ ~formatFailure)
  /\ streamPc' = [streamPc EXCEPT ![s] = IF formatFailure THEN "idle" ELSE "signal"]
  /\ UNCHANGED <<formatFailure, frameEvent>>

RejectFormat(s) ==
  /\ streamPc[s] = "reject"
  /\ formatFailure' = TRUE /\ latest' = FALSE
  /\ streamPc' = [streamPc EXCEPT ![s] = "signal"]
  /\ UNCHANGED frameEvent

SignalFrame(s) ==
  /\ streamPc[s] = "signal"
  /\ frameEvent' = TRUE
  /\ streamPc' = [streamPc EXCEPT ![s] = "idle"]
  /\ UNCHANGED <<latest, formatFailure>>

Stream(s) ==
  /\ SampleArrives(s) \/ Push(s) \/ RejectFormat(s) \/ SignalFrame(s)
  /\ UNCHANGED <<mode, scenario, pc, outcome, ui, audioRejected, loop, display, graph, powers>>

\* The audio callback latches a changed format for the owner.
AudioRejects ==
  /\ Alive /\ ~SettingUp /\ "audio" \in scenario /\ ~audioRejected
  /\ audioRejected' = TRUE
  /\ UNCHANGED <<mode, scenario, pc, outcome, ui, mailbox, loop, display, graph, powers>>

-----------------------------------------------------------------------------
(* The graph, DXGI and the UI thread.                                      *)

GraphEvent ==
  /\ Alive /\ ~SettingUp /\ "graph" \in scenario /\ Len(queue) < MaxQueued
  /\ \E code \in Codes : /\ queue' = Append(queue, code)
                          /\ errorQueued' = (errorQueued \/ (code = "error" /\ outcome = "none"))
  /\ UNCHANGED <<mode, scenario, pc, outcome, ui, mailbox, audioRejected, loop, display,
                 count, failure, completionPending, powers>>

\* A presented picture is on the screen: the chain can take the next one.
ChainSignals ==
  /\ Alive /\ chain = "busy" /\ chain' = "signaled"
  /\ UNCHANGED <<mode, scenario, pc, outcome, ui, mailbox, audioRejected, loop,
                 outputChanged, occluded, readiness, graph, powers>>

OutputChanges ==
  /\ InLoop /\ "output" \in scenario /\ mode # "AudioOnly" /\ ~outputChanged /\ outputChanged' = TRUE
  /\ UNCHANGED <<mode, scenario, pc, outcome, ui, mailbox, audioRejected, loop,
                 occluded, readiness, chain, graph, powers>>

\* Notify: a revision is published before the event is set.
NotifyPower ==
  /\ Alive /\ "power" \in scenario /\ ~notifying /\ power < MaxPower
  /\ power' = power + 1 /\ notifying' = TRUE
  /\ UNCHANGED <<mode, scenario, pc, outcome, ui, mailbox, audioRejected, loop, display,
                 graph, powerEvent, observed, request>>

SignalPower ==
  /\ Alive /\ notifying /\ notifying' = FALSE /\ powerEvent' = TRUE
  /\ UNCHANGED <<mode, scenario, pc, outcome, ui, mailbox, audioRejected, loop, display,
                 graph, power, observed, request>>

\* While the machine sleeps Windows ends the requests it finds.
Sleep ==
  /\ Alive /\ Suspended(power) /\ request = "live" /\ request' = "dead"
  /\ UNCHANGED <<mode, scenario, pc, outcome, ui, mailbox, audioRejected, loop, display,
                 graph, power, powerEvent, notifying, observed>>

\* The viewer closes: exclusive output is asked to leave first.
Close ==
  /\ Alive
  /\ \/ mode = "Exclusive" /\ ~closing /\ closing' = TRUE /\ UNCHANGED running
     \/ running /\ running' = FALSE /\ UNCHANGED closing
  /\ UNCHANGED <<mode, scenario, pc, outcome, mailbox, audioRejected, loop, display, graph, powers>>

Environment ==
  \/ GraphEvent \/ ChainSignals \/ OutputChanges
  \/ NotifyPower \/ SignalPower \/ Sleep \/ Close

-----------------------------------------------------------------------------
(* The capture thread: setup.                                              *)

\* renderer.initialize: a new swap chain, with a readiness handle if it has one.
NewChain ==
  /\ readiness' \in {Fresh(mode), NoHandle}
  /\ chain' = "signaled" /\ occluded' = FALSE
  /\ outputChanged' \in {FALSE, mode = "Exclusive"}

\* A stage of the setup: it completes, or fails and everything is torn down.
Stage(here, there) ==
  /\ pc = here
  /\ \/ GoTo(there) /\ StayIn
     \/ pc' = "Stopping" /\ outcome' = "setup"
  /\ UNCHANGED <<ui, mailbox, loop, graph, powers>>

\* The initialization lease, the graph, the device and its format.
OpenDevice ==
  /\ UNCHANGED display
  /\ Stage("Setup", IF mode = "AudioOnly" THEN "Sound" ELSE "Output")

\* Decoder, renderer and sample grabber, in the format that was negotiated.
BuildOutput == Stage("Output", "Connect") /\ (NewChain \/ UNCHANGED display)

\* The connected format is validated; the renderer is rebuilt when it differs.
ConnectVideo == Stage("Connect", "Sound") /\ (NewChain \/ UNCHANGED display)

\* The audio pin, its format and its callback; the recorder is configured.
ConnectAudio == Stage("Sound", "Run") /\ UNCHANGED display

Setup == OpenDevice \/ BuildOutput \/ ConnectVideo \/ ConnectAudio

\* control->Run, then StartRequest reads the power state.
Run ==
  /\ pc = "Run"
  /\ \/ GoTo("Acquire") /\ StayIn /\ running /\ observed' = power
     \/ GoTo("Top") /\ StayIn /\ ~running /\ UNCHANGED observed
     \/ pc' = "Stopping" /\ outcome' = "setup" /\ UNCHANGED observed
  /\ UNCHANGED <<ui, mailbox, loop, display, graph, power, powerEvent, notifying, request>>

\* Resume: a request is created unless the revision just read is a suspended one.
Acquire ==
  /\ pc = "Acquire" /\ GoTo("Top") /\ StayIn
  /\ IF Suspended(observed) THEN UNCHANGED request ELSE request' \in {"live", "failed"}
  /\ UNCHANGED <<ui, mailbox, loop, display, graph, power, powerEvent, notifying, observed>>

-----------------------------------------------------------------------------
(* The capture thread: one turn of the loop up to the wait.                *)

\* recoverRenderer rebuilds the device, or gives up and ends the loop.
Recover(there) ==
  \/ NewChain /\ GoTo(there) /\ StayIn
  \/ Leave("renderer") /\ UNCHANGED display

ExclusiveClosing == mode = "Exclusive" /\ closing

\* resizeOutput keeps the swap chain and its credit.
Resized(there) ==
  /\ outputChanged' = FALSE /\ occluded' = FALSE /\ GoTo(there) /\ StayIn
  /\ UNCHANGED <<readiness, chain>>

Top ==
  /\ pc = "Top"
  /\ IF ~running \/ ExclusiveClosing
       THEN Leave("ended") /\ UNCHANGED display
       ELSE IF (mode = "Exclusive" \/ Paced) /\ outputChanged
              THEN Resized("Audio") \/ Recover("Audio")
              ELSE GoTo("Audio") /\ StayIn /\ UNCHANGED display
  /\ UNCHANGED <<ui, mailbox, loop, graph, powers>>

CheckAudio ==
  /\ pc = "Audio"
  /\ IF audioRejected THEN Leave("audio") ELSE GoTo("Wait") /\ StayIn
  /\ UNCHANGED <<ui, mailbox, loop, display, graph, powers>>

\* Once a frame is known to be there only the chain is waited for.
WaitsForFrame == mode # "AudioOnly" /\ ~(Paced /\ frameReady)

\* WaitForMultipleObjects: graph, then wake, then frame, then presentation.
WaitGraph ==
  /\ pc = "Wait" /\ queue # <<>>
  /\ GoTo("Drain") /\ StayIn
  /\ UNCHANGED <<ui, mailbox, loop, display, graph, powers>>

WaitWake ==
  /\ pc = "Wait" /\ queue = <<>> /\ powerEvent
  /\ powerEvent' = FALSE /\ GoTo("Wake") /\ StayIn
  /\ UNCHANGED <<ui, mailbox, loop, display, graph, power, notifying, observed, request>>

WaitFrame ==
  /\ pc = "Wait" /\ queue = <<>> /\ ~powerEvent /\ WaitsForFrame /\ frameEvent
  /\ frameEvent' = FALSE /\ frameReady' = TRUE /\ received' = TRUE /\ timedOut' = FALSE
  /\ GoTo("Check") /\ StayIn
  /\ UNCHANGED <<ui, latest, formatFailure, streamPc, taken, display, graph, powers>>

WaitPresentation ==
  /\ pc = "Wait" /\ queue = <<>> /\ ~powerEvent /\ ~(WaitsForFrame /\ frameEvent)
  /\ ~Ready /\ chain = "signaled"
  /\ chain' = "granted" /\ readiness' = [readiness EXCEPT !.ready = TRUE]
  /\ timedOut' = FALSE /\ GoTo("Check") /\ StayIn
  /\ UNCHANGED <<ui, mailbox, frameReady, received, taken, outputChanged, occluded, graph, powers>>

WaitTimeout ==
  /\ pc = "Wait" /\ queue = <<>> /\ ~powerEvent /\ ~(WaitsForFrame /\ frameEvent)
  /\ Ready \/ chain # "signaled"
  /\ timedOut' = TRUE /\ GoTo("Check") /\ StayIn
  /\ UNCHANGED <<ui, mailbox, frameReady, received, taken, display, graph, powers>>

\* One GetEvent of the batch.
DrainEvent ==
  /\ pc = "Drain" /\ queue # <<>> /\ count < Batch
  /\ queue' = Tail(queue) /\ count' = count + 1
  /\ failure' = (failure \/ Head(queue) = "error")
  /\ completionPending' = (completionPending \/ Head(queue) = "complete")
  /\ UNCHANGED <<ui, pc, outcome, mailbox, loop, display, errorQueued, powers>>

\* Wrong variant: a completion is reported at the end of a full batch.
DrainedEarly ==
  /\ pc = "Drain" /\ (queue = <<>> \/ count = Batch)
  /\ completionPending' = (completionPending /\ ~failure)
  /\ timedOut' = FALSE /\ count' = 0 /\ failure' = FALSE
  /\ IF ExclusiveClosing THEN Leave("ended")
     ELSE IF failure THEN Leave("graph")
     ELSE IF completionPending THEN Leave("completed")
     ELSE GoTo("Check") /\ StayIn
  /\ UNCHANGED <<ui, mailbox, frameReady, received, taken, display, queue, errorQueued, powers>>

\* An error wins; a completion counts only once the queue was seen empty.
Drained ==
  /\ pc = "Drain" /\ (queue = <<>> \/ count = Batch)
  /\ completionPending' = (completionPending /\ ~failure)
  /\ timedOut' = FALSE /\ count' = 0 /\ failure' = FALSE
  /\ IF ExclusiveClosing THEN Leave("ended")
     ELSE IF failure THEN Leave("graph")
     ELSE IF completionPending /\ queue = <<>> THEN Leave("completed")
     ELSE GoTo("Check") /\ StayIn
  /\ UNCHANGED <<ui, mailbox, frameReady, received, taken, display, queue, errorQueued, powers>>

\* Wrong variant: only the suspended bit is compared.
ApplyPendingBit ==
  /\ pc = "Wake"
  /\ IF ExclusiveClosing \/ ~running
       THEN Leave("ended") /\ UNCHANGED <<observed, request>>
       ELSE IF Suspended(power) = Suspended(observed)
              THEN GoTo("Top") /\ StayIn /\ UNCHANGED request /\ observed' = power
              ELSE GoTo("Acquire") /\ StayIn /\ observed' = power /\ request' = "none"
  /\ UNCHANGED <<ui, mailbox, loop, display, graph, power, powerEvent, notifying>>

\* ApplyPending: a new revision releases the request, then Acquire renews it.
ApplyPending ==
  /\ pc = "Wake"
  /\ IF ExclusiveClosing \/ ~running
       THEN Leave("ended") /\ UNCHANGED <<observed, request>>
       ELSE IF power = observed
              THEN GoTo("Top") /\ StayIn /\ UNCHANGED <<observed, request>>
              ELSE GoTo("Acquire") /\ StayIn /\ observed' = power /\ request' = "none"
  /\ UNCHANGED <<ui, mailbox, loop, display, graph, power, powerEvent, notifying>>

-----------------------------------------------------------------------------
(* The capture thread: admission, the frame and its presentation.          *)

Drop == taken' = FALSE

\* The checks that end the loop after a wait that brought no event of its own.
\* Wrong variant: a rejected format is left to the drain of the mailbox.
CheckEndsLater ==
  \/ ExclusiveClosing /\ Leave("ended")
  \/ ~received /\ mode # "AudioOnly" /\ Leave("timeout")

CheckEnds ==
  \/ ExclusiveClosing /\ Leave("ended")
  \/ Paced /\ formatFailure /\ Leave("format")
  \/ ~received /\ mode # "AudioOnly" /\ Leave("timeout")

CheckFails ==
  /\ pc = "Check" /\ CheckEnds
  /\ UNCHANGED <<ui, mailbox, loop, display, graph, powers>>

Passed == pc = "Check" /\ ~ExclusiveClosing /\ ~(Paced /\ formatFailure)

\* Without pacing the mailbox is drained at once, on a timeout too.
CheckUnpaced ==
  /\ Passed /\ ~Paced
  /\ GoTo(IF mode = "AudioOnly" THEN "Top" ELSE "Take") /\ StayIn
  /\ UNCHANGED <<ui, mailbox, loop, display, graph, powers>>

\* Wrong variant: a frame seen while the window is covered is forgotten.
OccludedForgets ==
  /\ Passed /\ Paced /\ occluded
  /\ \/ GoTo("Top") /\ StayIn /\ UNCHANGED display
     \/ Recover("Top")
  /\ frameReady' = FALSE
  /\ UNCHANGED <<ui, mailbox, received, taken, timedOut, graph, powers>>

\* pollOcclusion: the window is still covered, or the test fails.
CheckOccluded ==
  /\ Passed /\ Paced /\ occluded
  /\ \/ GoTo("Top") /\ StayIn /\ UNCHANGED display
     \/ Recover("Top")
  /\ UNCHANGED <<ui, mailbox, loop, graph, powers>>

\* The window is visible: go on once there is a frame and a credit.  After
\* two seconds without the chain's signal the readiness is bypassed.
CheckPaced ==
  /\ Passed /\ Paced
  /\ \/ /\ frameReady /\ Ready /\ GoTo("Take") /\ StayIn
        /\ occluded' = FALSE /\ UNCHANGED <<outputChanged, readiness, chain>>
     \/ /\ ~(frameReady /\ Ready) /\ GoTo("Top") /\ StayIn
        /\ occluded' = FALSE /\ UNCHANGED <<outputChanged, readiness, chain>>
     \/ ~(frameReady /\ Ready) /\ timedOut /\ Recover("Top")
     \/ /\ frameReady /\ ~Ready /\ GoTo("Take") /\ StayIn
        /\ readiness' = [readiness EXCEPT !.bypassed = TRUE]
        /\ occluded' = FALSE /\ UNCHANGED <<outputChanged, chain>>
  /\ UNCHANGED <<ui, mailbox, loop, graph, powers>>

\* TakeLatest.
Take ==
  /\ pc = "Take" /\ GoTo("Taken") /\ StayIn
  /\ taken' = latest /\ latest' = FALSE /\ frameReady' = FALSE
  /\ UNCHANGED <<ui, formatFailure, frameEvent, streamPc, received, timedOut, display, graph, powers>>

Taken ==
  /\ pc = "Taken"
  /\ IF formatFailure THEN Leave("format") /\ Drop
     ELSE /\ StayIn /\ UNCHANGED taken
          /\ GoTo(IF ~taken THEN "Top" ELSE IF outputChanged THEN "Resize" ELSE "Admit")
  /\ received' = (received \/ taken)
  /\ UNCHANGED <<ui, mailbox, frameReady, timedOut, display, graph, powers>>

Resize ==
  /\ pc = "Resize"
  /\ Resized("Refresh") \/ Recover("Refresh")
  /\ UNCHANGED <<ui, mailbox, loop, graph, powers>>

\* RefreshAfterOutputReset: the output may have taken longer than a frame.
Refresh ==
  /\ pc = "Refresh" /\ latest' = FALSE
  /\ IF formatFailure THEN Leave("format") /\ Drop
     ELSE GoTo("Admit") /\ StayIn /\ UNCHANGED taken
  /\ UNCHANGED <<ui, formatFailure, frameEvent, streamPc, frameReady, received, timedOut,
                 display, graph, powers>>

\* Wrong variant: the admission of before a rebuilt output is relied on.
AdmitUnpolled ==
  /\ pc = "Admit" /\ GoTo("Upload") /\ StayIn
  /\ UNCHANGED <<ui, mailbox, loop, display, graph, powers>>

\* Poll: the chain may have been replaced since the loop was admitted.
Admit ==
  /\ pc = "Admit" /\ StayIn
  /\ \/ Ready /\ GoTo("Upload") /\ UNCHANGED <<taken, readiness, chain>>
     \/ /\ ~Ready /\ chain = "signaled" /\ GoTo("Upload") /\ UNCHANGED taken
        /\ chain' = "granted" /\ readiness' = [readiness EXCEPT !.ready = TRUE]
     \/ ~Ready /\ chain # "signaled" /\ GoTo("Top") /\ Drop /\ UNCHANGED <<readiness, chain>>
  /\ UNCHANGED <<ui, mailbox, frameReady, received, timedOut, outputChanged, occluded, graph, powers>>

\* Decode or map the sample, copy it to the GPU and release it.  A decoder may
\* keep the unit, or change its colour and so have the swap chain rebuilt.
Upload ==
  /\ pc = "Upload" /\ Drop
  /\ \/ GoTo("Present") /\ StayIn /\ UNCHANGED display
     \/ GoTo("Top") /\ StayIn /\ UNCHANGED display
     \/ Leave("decode") /\ UNCHANGED display
     \/ /\ readiness' \in {[Fresh(mode) EXCEPT !.ready = (mode = "VSync")], NoHandle}
        /\ chain' = (IF readiness'.handle THEN "granted" ELSE "signaled")
        /\ occluded' = FALSE /\ outputChanged' \in {FALSE, mode = "Exclusive"}
        /\ GoTo("Present") /\ StayIn
     \/ NewChain /\ readiness'.handle /\ GoTo("Top") /\ StayIn
  /\ UNCHANGED <<ui, mailbox, frameReady, received, timedOut, graph, powers>>

\* presentUploaded: nothing is drawn for a covered window or after a failed
\* draw; only a Present uses the credit up.
Present ==
  /\ pc = "Present"
  /\ \/ occluded /\ GoTo("Top") /\ StayIn /\ UNCHANGED display
     \/ Recover("Top")
     \/ /\ GoTo("Top") /\ StayIn /\ UNCHANGED outputChanged
        /\ readiness' = [readiness EXCEPT !.ready = FALSE]
        /\ \/ occluded' = FALSE /\ chain' = "busy"
           \/ occluded' = TRUE /\ chain' \in {"busy", "silent"}
  /\ UNCHANGED <<ui, mailbox, loop, graph, powers>>

\* The power request goes first, then control->Stop waits for the callbacks.
Stop ==
  /\ pc = "Stop" /\ GoTo("Stopping") /\ StayIn /\ request' = "none"
  /\ UNCHANGED <<ui, mailbox, loop, display, graph, power, powerEvent, notifying, observed>>

\* A rejected format is reported whatever ended the loop.
Teardown ==
  /\ pc = "Stopping" /\ \A s \in Streams : streamPc[s] = "idle"
  /\ GoTo("Ended") /\ outcome' = (IF formatFailure THEN "format" ELSE outcome)
  /\ latest' = FALSE /\ readiness' = NoHandle
  /\ UNCHANGED <<ui, formatFailure, frameEvent, streamPc, loop, outputChanged, occluded, chain,
                 graph, powers>>

Owner ==
  /\ \/ Setup \/ Run \/ Acquire \/ Top \/ CheckAudio
     \/ WaitGraph \/ WaitWake \/ WaitFrame \/ WaitPresentation \/ WaitTimeout
     \/ DrainEvent \/ Drained \/ ApplyPending
     \/ CheckFails \/ CheckUnpaced \/ CheckOccluded \/ CheckPaced
     \/ Take \/ Taken \/ Resize \/ Refresh \/ Admit \/ Upload \/ Present
     \/ Stop \/ Teardown
  /\ UNCHANGED <<mode, scenario, audioRejected>>

Next == Owner \/ (\E s \in Streams : Stream(s)) \/ AudioRejects \/ Environment

Spec == Init /\ [][Next]_vars

\* The capture thread runs, and a callback that was entered returns.  Nothing
\* is assumed of the driver, of DXGI or of the UI.
Fairness ==
  /\ WF_vars(Owner)
  /\ \A s \in Streams : WF_vars(Stream(s) /\ streamPc[s] # "idle")

FairSpec == Spec /\ Fairness
-----------------------------------------------------------------------------
TypeOK ==
  /\ mode \in Modes /\ scenario \in Scenarios /\ running \in BOOLEAN /\ closing \in BOOLEAN
  /\ pc \in {"Setup", "Output", "Connect", "Sound", "Run", "Acquire", "Top", "Audio", "Wait", "Drain", "Wake", "Check", "Take",
             "Taken", "Resize", "Refresh", "Admit", "Upload", "Present", "Stop", "Stopping", "Ended"}
  /\ outcome \in {"none", "setup", "ended", "renderer", "audio", "graph", "completed", "format",
                  "timeout", "decode"}
  /\ latest \in BOOLEAN /\ formatFailure \in BOOLEAN /\ frameEvent \in BOOLEAN
  /\ streamPc \in [Streams -> {"idle", "push", "reject", "signal"}] /\ audioRejected \in BOOLEAN
  /\ frameReady \in BOOLEAN /\ received \in BOOLEAN /\ taken \in BOOLEAN
  /\ timedOut \in BOOLEAN
  /\ outputChanged \in BOOLEAN /\ occluded \in BOOLEAN
  /\ readiness \in [handle : BOOLEAN, ready : BOOLEAN, bypassed : BOOLEAN]
  /\ chain \in {"signaled", "granted", "busy", "silent"}
  /\ queue \in Seq(Codes) /\ count \in 0 .. Batch
  /\ failure \in BOOLEAN /\ completionPending \in BOOLEAN /\ errorQueued \in BOOLEAN
  /\ power \in 0 .. MaxPower /\ observed \in 0 .. MaxPower
  /\ powerEvent \in BOOLEAN /\ notifying \in BOOLEAN
  /\ request \in {"none", "live", "dead", "failed"}

\* "A concurrent format rejection must not publish another stale frame"
\* (LatestVideoSample::Push): once a format is rejected the mailbox is empty.
NoStaleFrame == formatFailure => ~latest

\* A sample in the mailbox is never forgotten (LatestVideoSample::Push, the
\* loop's frameReady): its event is or will be set, or the loop knows of it.
NoStrandedFrame ==
  InLoop /\ latest => \/ frameEvent \/ frameReady \/ pc = "Take"
                      \/ \E s \in Streams : streamPc[s] = "signal"

\* A graph that reported an error before its completion was recognised is
\* never reported as completed (CaptureGraphEvents::Wait).
CompletionHidesNoError == outcome = "completed" => ~errorQueued

\* The power request follows the UI's last broadcast (PlaybackPowerEvents):
\* either news is on its way, or playback holds a request that no sleep has
\* ended exactly when the machine is not suspended.
PowerFollowsState ==
  InLoop /\ running /\ pc # "Acquire" =>
    IF observed # power THEN notifying \/ powerEvent \/ pc = "Wake"
    ELSE IF Suspended(power) THEN request = "none" ELSE request \in {"live", "failed"}

\* Latency 1 (Readiness): a paced loop draws only when the swap chain has
\* granted it a picture, whatever rebuilt the output since it was admitted.
PresentGranted == pc = "Present" /\ Paced => chain = "granted"

\* A rejected format, video or audio, and a closing viewer end the capture
\* however its output is paced, covered or rebuilt.
LoopEnds == (InLoop /\ (formatFailure \/ audioRejected \/ ~running)) ~> pc = "Ended"

-----------------------------------------------------------------------------
(* The inductive invariant behind the five of them.                        *)

\* From control->Run on, whatever the loop's state.
Known ==
  latest => \/ frameEvent \/ frameReady \/ pc = "Take"
            \/ \E s \in Streams : streamPc[s] = "signal"

\* An error event is seen or still queued while the loop has no outcome.
Errors ==
  /\ Alive => outcome = "none"
  /\ errorQueued /\ outcome = "none" =>
       failure \/ \E i \in 1 .. Len(queue) : queue[i] = "error"

\* No request exists before Acquire, and a revision is never lost sight of.
News ==
  /\ observed <= power
  /\ SettingUp \/ pc \in {"Run", "Acquire"} => request = "none"
  /\ InLoop /\ running /\ observed # power => notifying \/ powerEvent \/ pc = "Wake"

\* The credit stands for the chain's grant, and is there when it is needed.
Credit ==
  /\ readiness.ready => chain = "granted"
  /\ pc \in {"Upload", "Present"} => Ready

IInv ==
  /\ TypeOK /\ NoStaleFrame /\ (Alive => Known) /\ Errors /\ CompletionHidesNoError
  /\ News /\ PowerFollowsState /\ Credit
=============================================================================
